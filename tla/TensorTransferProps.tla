------------------------- MODULE TensorTransferProps -------------------------
(* What pulls and pushes of models with tensor layers must not get wrong.    *)
EXTENDS TensorTransfer

Phases == {"idle", "checking", "running", "manifest", "ok", "failed"}
Steps == {"none", "queued", "checked", "ended", "hold", "resolve", "refresh", "getToken", "stat",
          "ask", "open", "read", "drain", "verify", "rename", "settle", "backoff",
          "head", "init", "put", "commit", "patch", "cdn", "part", "finalize"}
Errors == {"none", "error", "cancelled", "stalled", "slow"}

\* The type invariant.  A task holds a slot exactly while it moves a body, and
\* reports no more than a blob has, but for a unit too many that it received.
TensorTypeOK ==
  /\ job \in [Jobs -> [kind : {"pull", "push"}, layers : SUBSET Blobs, phase : Phases,
                       cancelled : BOOLEAN, already : Nat, completed : Int, token : Nat, valid : Nat]]
  /\ task \in [Tasks -> [pc : Steps, attempt : 0 .. MaxRetries, n : 0 .. Size + 1, slot : BOOLEAN,
                         err : Errors, prev : Nat, back : Steps]]
  /\ faults \in Nat
  /\ fetch \in [Tasks -> [from : 0 .. Size, base : 0 .. Size, off : 0 .. Size + 1, clean : BOOLEAN,
                          fd : {"none", "tmp", "blob", "gone"}, silent : BOOLEAN,
                          cause : {"none", "stalled", "slow"}, slow : Nat]]
  /\ disk \in [Blobs -> [tmp : File, blob : File]]
  /\ installed \subseteq Jobs /\ noted \in [lost : SUBSET Blobs, shared : SUBSET Blobs]
  /\ send \in [Tasks -> [inits : 0 .. MaxInitRetries, tries : 0 .. MaxRetries, told : BOOLEAN,
                         landed : 0 .. Size, part : 0 .. Size + 1]]
  /\ registry \in [stored : SUBSET Blobs, manifests : SUBSET Jobs]
  /\ marked \in [presumed : SUBSET Blobs, readOn : SUBSET Jobs]
  /\ \A w \in Tasks :
       task[w].slot <=> \/ task[w].pc \in {"resolve", "stat", "ask", "open", "read", "drain",
                                           "verify", "rename", "put", "patch", "cdn", "part"}
                        \/ /\ task[w].pc \in {"refresh", "getToken"}
                           /\ task[w].back \in {"resolve", "part"}

\* A model that was pulled has all its blobs, and they are what was asked for,
\* whatever was wrong, cut short, continued or restarted - unless a write was
\* lost, which nobody notices, or two pulls fetched the blob at a time, into one
\* temporary file (save).
PulledIsWhole ==
  \A j \in installed : \A b \in job[j].layers :
    disk[b].blob = Whole \/ b \in noted.lost \cup noted.shared

\* A manifest goes to the registry when it has recorded all blobs of the model,
\* and not only because the uploads of this push are over - unless a blob was
\* taken for recorded since every attempt to announce it was answered with 401.
PushedIsComplete ==
  \A j \in registry.manifests : job[j].layers \subseteq registry.stored \cup marked.presumed

\* Who is done has reported the whole model, neither more nor less, after any
\* retries, resumptions and redirections: what failed attempts had reported was
\* taken back - unless the transport read on when its unit had been counted.  A
\* pull that finds everything there reports nothing.
DoneReportsAll ==
  \A j \in Jobs \ marked.readOn :
    (job[j].phase \in {"manifest", "ok"} /\ job[j].completed # 0) =>
       job[j].completed = Cardinality(job[j].layers) * Size

\* Tasks whose requests are refused together get one new token among them.
TokensAreShared == \A j \in Jobs : job[j].token <= job[j].valid

\* A pull or push comes to an end - unless a connection has fallen silent: the
\* watchdog cancels the copy, and not the read that it waits for.
JobsEnd ==
  \A j \in Jobs :
    (job[j].phase \in {"checking", "running", "manifest"}) ~>
      \/ job[j].phase \notin {"checking", "running", "manifest"}
      \/ \E w \in TasksOf(j) : fetch[w].silent

=============================================================================
