---------------------------- MODULE MCInstaller ----------------------------
(* Machines that meet each check of install.sh. *)
EXTENDS Installer

Box(name, version) == [name |-> name, version |-> version, x64 |-> TRUE, insource |-> FALSE,
                       brew |-> TRUE, clang |-> TRUE]

\* Supported, with and without the compiler in the distribution, and not supported.
MCSystems ==
  { Box("Ubuntu", <<17, 10>>),
    [Box("Ubuntu", <<17, 4>>) EXCEPT !.clang = FALSE],
    [Box("Ubuntu", <<17>>) EXCEPT !.insource = TRUE],
    [Box("Debian", << >>) EXCEPT !.x64 = FALSE],
    Box("Debian", <<8, 11>>),
    Box("macOS", <<10, 9, 5>>),
    [Box("macOS", <<11>>) EXCEPT !.brew = FALSE],
    Box("norelease", << >>), Box("Linux", <<27>>), Box("other", << >>) }
=============================================================================
