----------------------------- MODULE GPUScripts -----------------------------
(***************************************************************************)
(* The scripts of the kernel, the NVIDIA driver and the container toolkit: *)
(* templates/kernel.go, nv-driver.go and container-toolkit.go.             *)
(***************************************************************************)
EXTENDS NodeScripts

\* The script exits also when a kernel waits for its reboot, whichever it is.
KernelSkips(v) == proc["kernel"].build = v \/ disk[<<"kernel", "pending">>] # "none"

\* Mutant: nothing says that the kernel waits for its reboot.
KernelUnannounced(v) ==
  IF proc["kernel"].build = v THEN << >>
  ELSE << Put("kernel", "image", v), Reboot >>

\* The marker of a kernel that runs replaces the one that waits for a reboot.
KernelScript(v) ==
  IF proc["kernel"].build = v THEN << Put("kernel", "pending", "none") >>
  ELSE IF KernelSkips(v) THEN << >>
  ELSE << Put("kernel", "image", v), Put("kernel", "pending", v), Reboot >>

-----------------------------------------------------------------------------
(* The driver                                                              *)

DriverPackageSkips(v) == DriverWorks /\ disk[<<"driver", "userland">>] = v

\* The kernel headers, the CUDA repository and the packages.  A resolver may
\* take another version than the one that was named.
DriverPackages(v) ==
  << PutOneOf({<<"driver", "userland">>}, {v, Newest}) >>

\* Mutant: whatever was installed and loaded is taken for the pinned version.
DriverNotCompared(v) ==
  << Copy(<<"driver", "userland">>, <<"driver", "module">>), Start("driver"),
     Put("driver", "provenance", "package") >>

\* The module that comes with the packages; a loaded one stays loaded.
DriverModule(v) ==
  << Copy(<<"driver", "userland">>, <<"driver", "module">>), Start("driver"), Need("driver"), Pinned(v),
     Put("driver", "provenance", "package") >>

\* Any driver that works is taken for the one of the runfile.
DriverRunfileSkips == DriverWorks

DriverRunfile(v) ==
  << Put("driver", "userland", v), Put("driver", "module", v), Start("driver"),
     Need("driver"), Put("driver", "provenance", v) >>

DriverGitSkips(c) ==
  DriverWorks /\ disk[<<"jq", "package">>] # "none" /\ disk[<<"driver", "provenance">>] = c

\* Only the kernel modules are built; nvidia-smi must be there already.
DriverGit(c) ==
  << Put("driver", "module", c), Start("driver"), Need("driver"),
     Put("driver", "provenance", c) >>

DriverScript(source, ref) ==
  CASE ~GPU -> << >>
    [] GPU /\ source = "package" ->
         IF DriverPackageSkips(ref) THEN << >> ELSE DriverPackages(ref) \o DriverModule(ref)
    [] GPU /\ source = "runfile" -> IF DriverRunfileSkips THEN << >> ELSE DriverRunfile(ref)
    [] GPU /\ source = "git" -> IF DriverGitSkips(ref) THEN << >> ELSE DriverGit(ref)

-----------------------------------------------------------------------------
(* The container toolkit, for the runtime r                                *)

\* nvidia-ctk is there, in that version if one was named (the newest is not): the
\* runtime is taken to be configured.
ToolkitPackageSkips(v) ==
  Binary("toolkit") # "none" /\ (v = Newest \/ (PlainNames /\ Binary("toolkit") = v))

\* Mutant: the runtime goes on with the configuration it has read.
ConfigureOnly(r) == << Add(r, {"nvidia"}) >>

\* nvidia-ctk runtime configure, and the runtime reads it.
ConfigureRuntime(r) == << Add(r, {"nvidia"}), Restart(r) >>

ToolkitPackage(v, r) ==
  Fetched("toolkit") \o << Put("toolkit", "package", v) >> \o ConfigureRuntime(r)
    \o << Put("toolkit", "provenance", "package") >>

ToolkitGitSkips(c) ==
  /\ Binary("toolkit") # "none"
  /\ disk[<<"jq", "package">>] # "none" /\ disk[<<"toolkit", "provenance">>] = c

\* From an image with packages, or built from source.
ToolkitGit(c, r) ==
  Fetched("toolkit") \o << PutOneOf({<<"toolkit", "package">>, <<"toolkit", "local">>}, {c}) >>
    \o ConfigureRuntime(r) \o << Need("toolkit"), Put("toolkit", "provenance", c) >>

\* The image is that of the commit c, the clone takes what the branch holds.
ToolkitLatest(c, r) ==
  Fetched("toolkit") \o << Clone({<<"toolkit", "local">>}) >>
    \o ConfigureRuntime(r) \o << Need("toolkit"), Put("toolkit", "provenance", c) >>

ToolkitScript(source, ref, r) ==
  CASE source = "package" ->
         IF ~GPU \/ ToolkitPackageSkips(ref) THEN << >> ELSE ToolkitPackage(ref, r)
    [] source = "git" -> IF ToolkitGitSkips(ref) THEN << >> ELSE ToolkitGit(ref, r)
    [] source = "latest" ->
         IF ToolkitGitSkips(branch) THEN << >> ELSE ToolkitLatest(branch, r)

=============================================================================
