----------------------------- MODULE MCExplorer -----------------------------
\* Two names, one of them dotted, on volumes of up to three objects.
EXTENDS Explorer, TLC

CONSTANTS a, dot

MCTrees ==
    { (<<a>> :> "dir") @@ (<<a, a>> :> "dir") @@ (<<a, a, dot>> :> "file"),
      (<<a>> :> "file") @@ (<<dot>> :> "dir") @@ (<<dot, a>> :> "file") }

\* NaoEdit's default is a file in the root directory.
MCSaves == {<<a>>}

\* A single file in the root directory.
MCFile == {<<a>> :> "file"}

=============================================================================
