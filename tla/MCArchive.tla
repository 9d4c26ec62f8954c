----------------------------- MODULE MCArchive -----------------------------
EXTENDS Archive

CONSTANTS fa, fb

MCInputs == <<fa, fb>>

\* The second file comes first in the order of ids.  It is also the one that may become
\* shorter, which gives it another id; the first file stays as it is.
MCOriginals ==
  fa :> [id |-> 2, len |-> 12, text |-> "A"] @@ fb :> [id |-> 1, len |-> 6, text |-> "B"]
MCEdits ==
  fa :> {} @@ fb :> {[id |-> 0, len |-> 3, text |-> "B2"]}

\* Two recovery blocks over blocks of eight bytes, in a volume each or in a single file, or
\* none in a single file.  In blocks of four bytes the files as they are make more than the
\* limit; once the second has become shorter there are four recovery blocks, in volumes of
\* one, two and one.
MCOptions ==
  {[size |-> 0, percent |-> 70, scheme |-> "Exponential"],
   [size |-> 8, percent |-> 50, scheme |-> "Single"],
   [size |-> 8, percent |-> 0, scheme |-> "Single"],
   [size |-> 4, percent |-> 100, scheme |-> "Exponential"]}
=============================================================================
