---------------------------- MODULE DownloadProps ----------------------------
(* What is claimed of the download of a blob.                              *)
EXTENDS Download

PartRecord ==
  [at : {"idle", "get", "silent", "save", "encode", "ended", "failed"},
   done : Nat, got : Nat, try : 0 .. MaxRetries,
   seen : BOOLEAN, then : {"ok", "retry", "cancel", "stall"}]

\* Calls that hold a reference to download d.
Holding(d) == {c \in Calls : call[c].at \in {"wait", "stuck"} /\ call[c].dl = d}

\* Every variable has its type; no part holds or records more blocks than it
\* has, and the references of a download are the calls that wait for it.
TypeOK ==
  /\ call \in [Calls ->
       [at : {"idle", "join", "prepare", "enter", "wait", "stuck", "verify",
              "mismatch", "install"} \cup Final,
        dl : Calls \cup {None}, left : BOOLEAN]]
  /\ stage \in [Calls ->
       {"none", "returned", "closed", "abandoned"} \cup Working]
  /\ dl \in [Calls ->
       [refs : Nat, cancellable : BOOLEAN, cancelled : BOOLEAN,
        failed : BOOLEAN, parts : SUBSET Parts, part : [Parts -> PartRecord],
        completed : Nat, removed : 0 .. BlobSize]]
  /\ \A d \in Calls :
       /\ dl[d].refs = Cardinality(Holding(d))
       /\ \A p \in Parts : dl[d].part[p].done + dl[d].part[p].got <= Size(p)
  /\ manager \in Calls \cup {None}
  /\ partial \in Content \cup {None} /\ blob \in Content \cup {None}
  /\ \A p \in Parts : partFile[p] \in 0 .. Size(p) \cup {Torn, None}
  /\ partFile \in [Parts -> Nat \cup {Torn, None}] /\ manifest \in BOOLEAN
  /\ faults \in [net : Nat, disk : Nat, corrupt : Nat, crash : Nat]

\* Two downloads never work on the partial file and the part files at once,
\* although a download can be replaced in the map as soon as it has returned.
OneWriter ==
  \A d, e \in Calls : stage[d] \in Working /\ stage[e] \in Working => d = e

\* The progress that is reported is what the parts have and receive, also
\* after attempts that were broken off, kept or rolled back.  It is exact as
\* long as every write to the partial file succeeds; each one that fails may
\* leave the block it was to write counted, for ever.
ProgressExact ==
  \A d \in Calls : stage[d] = "fetch" =>
    LET there == SumOverParts([p \in Parts |-> dl[d].part[p].done + dl[d].part[p].got])
    IN there <= dl[d].completed /\ dl[d].completed <= there + faults.disk

Undisturbed == faults.disk = 0 /\ faults.crash = 0

\* Unless a file operation failed or the process died, what a part file
\* records is in the partial file, so that a later download may skip it.
ResumeSkipsNothing ==
  Undisturbed =>
    \A p \in Parts : partFile[p] \notin {None, Torn} =>
      \A i \in 0 .. partFile[p] - 1 :
        partial # None /\ partial[Offset(p) + i] # "hole"

\* Unless a file operation failed or the process died, a blob file that
\* appears under its name has no holes.
PublishedIsWhole ==
  Undisturbed /\ blob # None => \A b \in Blocks : blob[b] # "hole"

\* Calls that wait for a download whose preparation failed.
Stranded(c) == call[c].at = "wait" /\ stage[call[c].dl] = "abandoned"

\* A connection that was accepted and never brought a byte.
Mute(d) == \E p \in Parts : Fetching(d, p, "silent") /\ ~dl[d].part[p].seen

\* A call whose client stays is answered, whatever the network does and
\* whoever else leaves, but for the two cases above.
PullsAreAnswered ==
  \A c \in Calls :
    call[c].at = "wait" ~>
      \/ call[c].at # "wait" \/ call[c].left
      \/ Stranded(c) \/ Mute(call[c].dl)

\* docs/api.md: multiple calls share one download.  No call waits for a
\* download that will never end.
NoStrandedCall == \A c \in Calls : ~Stranded(c)

=============================================================================
