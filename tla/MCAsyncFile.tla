----------------------------- MODULE MCAsyncFile -----------------------------
(* AsyncFile instantiated for TLC.                                         *)
EXTENDS AsyncFile

\* A two-byte file, one- and two-byte reads, one- and two-byte writes with a
\* buffer limit of one byte (so a write can be cut short), and one seek of
\* each kind that cannot fail.
MCInitialDisk == <<1, 2>>
MCReadSizes == {1, 2}
MCWriteData == {<<3>>, <<3, 3>>}
MCSeeks == {[whence |-> "Start", off |-> 0], [whence |-> "Current", off |-> 1],
            [whence |-> "End", off |-> 0]}

\* A relative seek that fails (EINVAL) when the cursor is at 0.
MCSeeksBack == {[whence |-> "Current", off |-> -1]}

=============================================================================
