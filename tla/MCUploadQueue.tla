--------------------------- MODULE MCUploadQueue ---------------------------
(* Instances of UploadQueue for TLC. *)
EXTENDS UploadQueue, TLC

\* Workers are interchangeable, and so are upload requests: sound for the
\* runs that check no liveness.
Symmetry == Permutations(Worker) \cup Permutations(Upload)

\* Every call that can fail, for the safety runs.
AllFaults == {"insert", "rename", "undo", "claim", "complete", "mark",
              "release", "extract", "reset"}

\* The failures after which the code still promises progress.
MildFaults == {"insert", "rename", "extract"}
=============================================================================
