--------------------------- MODULE MediaProcessing ---------------------------
(***************************************************************************)
(* The media assets of inbound messages: the RQ job that fetches an asset, *)
(* stores its bytes in S3 and extracts its transcript, and the operations  *)
(* of the reconcile endpoint, which clean up, enqueue and retry assets     *)
(* while jobs run.                                                         *)
(*                                                                         *)
(* Sessions are at READ COMMITTED without autoflush or row locks.  The     *)
(* metadata column is one JSON value, read whole and written back whole.   *)
(***************************************************************************)
EXTENDS Naturals, FiniteSets

CONSTANTS
  Assets,       \* media_assets rows
  Uploads,      \* set of functions from Assets to Items: what the gateway may send
  Workers,      \* RQ worker processes
  NoAsset,      \* what an idle worker works on
  Ops,          \* concurrent reconcile requests
  Configured,   \* whether OPENAI_API_KEY is set
  MaxOps        \* bound: operations started by Ops

Kinds == {"image", "video", "audio", "text", "pdf", "file"}

\* What a message says of an asset: its kind when the job starts, the kind of the
\* MIME type its transcript is extracted by, whether inline bytes came with it and
\* decode, and whether its payload has a download URL, a thumbnail and a caption.
Items == [kind : Kinds, reads : Kinds, inline : {"valid", "invalid", "none"},
          url : BOOLEAN, thumb : BOOLEAN, caption : BOOLEAN, bogus : BOOLEAN]

ASSUME MediaAssumption ==
  /\ Uploads \subseteq [Assets -> Items]
  /\ NoAsset \notin Assets
  /\ Configured \in BOOLEAN /\ MaxOps \in Nat

VARIABLES
  item,       \* the upload, fixed
  status,     \* media_assets.status; "absent" and "gone" without a row
  text,       \* transcripts.status; "none" without a row
  meta,       \* which of inline bytes, preview and error are in metadata_json
  keyed,      \* assets whose s3_key is set
  stored,     \* assets with an object in S3
  announced,  \* assets the ingest request has committed and is about to enqueue
  queue,      \* entries of the RQ queue for the job of each asset
  wpc,        \* where each worker is in process_media_asset_job
  doing,      \* the asset it works on
  seen,       \* its session: status, metadata and transcript as loaded, and what it will write
  opc,        \* the operation each of Ops runs
  chosen,     \* the rows it selected
  left,       \* those it has yet to enqueue
  copy,       \* the metadata of the rows as loaded by it
  ops,        \* operations started
  hit,        \* history: assets whose enqueue was lost or whose job died
  overtaken,  \* history: assets whose row a job read while their retry was uncommitted
  contested   \* history: assets that two sessions worked on at once, whose commit raised although
              \* applied, or whose job failed before it had read their status

rowVars    == <<item, status, text, meta, keyed>>
workerVars == <<wpc, doing, seen>>
opVars     == <<opc, chosen, left, copy, ops>>
history    == <<hit, overtaken, contested>>
vars == <<rowVars, stored, announced, queue, workerVars, opVars, history>>

Statuses == {"absent", "pending", "ready", "failed", "gone"}
Texts    == {"none", "pending", "ready", "failed"}
Facts    == {"inline", "preview", "error"}

NoCopy == [status |-> "absent", meta |-> {}, text |-> "none", write |-> "none", mode |-> "none"]

TypeOK ==
  /\ item \in Uploads
  /\ status \in [Assets -> Statuses]
  /\ text \in [Assets -> Texts]
  /\ meta \in [Assets -> SUBSET Facts]
  /\ keyed \subseteq Assets /\ stored \subseteq Assets /\ announced \subseteq Assets
  /\ queue \in [Assets -> Nat]
  /\ wpc \in [Workers -> {"idle", "load", "fetch", "extract", "write", "recover", "blame", "mark"}]
  /\ doing \in [Workers -> Assets \cup {NoAsset}]
  /\ seen \in [Workers -> [status : Statuses, meta : SUBSET Facts, text : Texts, write : Texts,
                           mode : {"none", "bytes", "thumbnail", "missing"}]]
  /\ opc \in [Ops -> {"idle", "cleanup", "pending", "retry"}]
  /\ chosen \in [Ops -> SUBSET Assets] /\ left \in [Ops -> SUBSET Assets]
  /\ copy \in [Ops -> [Assets -> SUBSET Facts]]
  /\ ops \in 0..MaxOps
  /\ hit \subseteq Assets /\ overtaken \subseteq Assets /\ contested \subseteq Assets

Init ==
  /\ item \in Uploads
  /\ status = [a \in Assets |-> "absent"]
  /\ text = [a \in Assets |-> "none"]
  /\ meta = [a \in Assets |-> {}]
  /\ keyed = {} /\ stored = {} /\ announced = {}
  /\ queue = [a \in Assets |-> 0]
  /\ wpc = [w \in Workers |-> "idle"]
  /\ doing = [w \in Workers |-> NoAsset]
  /\ seen = [w \in Workers |-> NoCopy]
  /\ opc = [o \in Ops |-> "idle"]
  /\ chosen = [o \in Ops |-> {}] /\ left = [o \in Ops |-> {}]
  /\ copy = [o \in Ops |-> [a \in Assets |-> {}]]
  /\ ops = 0
  /\ hit = {} /\ overtaken = {} /\ contested = {}

HasRow(a) == status[a] \in {"pending", "ready", "failed"}

\* The jobs that have read the asset and the operations that have selected its row.
Holders(a) == {w \in Workers : doing[w] = a /\ wpc[w] \notin {"idle", "load"}}
                \cup {o \in Ops : a \in chosen[o] /\ opc[o] # "pending"}

\* An attribute assigned the value it was loaded with is not part of the UPDATE.
Written(loaded, new, current) == IF new = loaded THEN current ELSE new

-----------------------------------------------------------------------------
(* The ingest request: the row is committed with its message, then the job *)
(* is enqueued; a failure of Redis is logged and swallowed.                *)

Persist(a) ==
  /\ status[a] = "absent"
  /\ status' = [status EXCEPT ![a] = "pending"]
  /\ meta' = [meta EXCEPT ![a] = IF item[a].inline = "none" THEN {} ELSE {"inline"}]
  /\ announced' = announced \cup {a}
  /\ UNCHANGED <<item, text, keyed, stored, queue, workerVars, opVars, history>>

Announce(a) ==
  /\ a \in announced
  /\ announced' = announced \ {a}
  /\ queue' = [queue EXCEPT ![a] = @ + 1]
  /\ UNCHANGED <<rowVars, stored, workerVars, opVars, history>>

AnnounceLost(a) ==
  /\ a \in announced
  /\ announced' = announced \ {a}
  /\ hit' = hit \cup {a}
  /\ UNCHANGED <<rowVars, stored, queue, workerVars, opVars, overtaken, contested>>

-----------------------------------------------------------------------------
(* process_media_asset_job.                                                *)

Start(w, a) ==
  /\ wpc[w] = "idle" /\ queue[a] > 0
  /\ queue' = [queue EXCEPT ![a] = @ - 1]
  /\ wpc' = [wpc EXCEPT ![w] = "load"]
  /\ doing' = [doing EXCEPT ![w] = a]
  /\ UNCHANGED <<rowVars, stored, announced, seen, opVars, history>>

JobDone(w) == /\ wpc' = [wpc EXCEPT ![w] = "idle"]
              /\ doing' = [doing EXCEPT ![w] = NoAsset]
              /\ seen' = [seen EXCEPT ![w] = NoCopy]

\* A retry that has enqueued the asset and not committed its new status.
Uncommitted(a) == \E o \in Ops : opc[o] = "retry" /\ a \in chosen[o] \ left[o]

\* The metadata with the thumbnail of an image as its preview.
WithPreview(a) == IF item[a].kind = "image" /\ item[a].thumb THEN meta[a] \cup {"preview"} ELSE meta[a]

\* Inline bytes that decode come before a URL; without either an image is shown by
\* its preview alone, and anything else has failed.
Mode(a) == CASE "inline" \in meta[a] /\ item[a].inline = "valid" -> "bytes"
             [] item[a].url                                       -> "bytes"
             [] item[a].kind = "image" /\ "preview" \in WithPreview(a) -> "thumbnail"
             [] OTHER                                              -> "missing"

\* Without the check of the status.
LoadAnyStatus(w) ==
  LET a == doing[w] IN
  /\ wpc[w] = "load"
  /\ wpc' = [wpc EXCEPT ![w] = IF Mode(a) = "bytes" THEN "fetch" ELSE "extract"]
  /\ seen' = [seen EXCEPT ![w] = [NoCopy EXCEPT !.status = status[a], !.meta = WithPreview(a),
                                               !.mode = Mode(a)]]
  /\ contested' = IF Holders(a) = {} THEN contested ELSE contested \cup {a}
  /\ overtaken' = IF Uncommitted(a) THEN overtaken \cup {a} ELSE overtaken
  /\ UNCHANGED <<rowVars, stored, announced, queue, doing, opVars, hit>>

\* The job goes on with a PENDING row only.
Load(w) ==
  LET a == doing[w] IN
  /\ wpc[w] = "load"
  /\ IF status[a] = "pending"
     THEN /\ wpc' = [wpc EXCEPT ![w] = IF Mode(a) = "bytes" THEN "fetch" ELSE "extract"]
          /\ seen' = [seen EXCEPT ![w] = [NoCopy EXCEPT !.status = status[a], !.meta = WithPreview(a),
                                                       !.mode = Mode(a)]]
          /\ contested' = IF Holders(a) = {} THEN contested ELSE contested \cup {a}
          /\ UNCHANGED doing
     ELSE JobDone(w) /\ UNCHANGED contested
  /\ overtaken' = IF Uncommitted(a) THEN overtaken \cup {a} ELSE overtaken
  /\ UNCHANGED <<rowVars, stored, announced, queue, opVars, hit>>

\* Without the upload.
FetchUnstored(w) ==
  /\ wpc[w] = "fetch"
  /\ wpc' = [wpc EXCEPT ![w] = "extract"]
  /\ UNCHANGED <<rowVars, stored, announced, queue, doing, seen, opVars, history>>

\* The bytes are downloaded, unless they came inline, and put into S3.
Fetch(w) ==
  /\ wpc[w] = "fetch"
  /\ stored' = stored \cup {doing[w]}
  /\ wpc' = [wpc EXCEPT ![w] = "extract"]
  /\ UNCHANGED <<rowVars, announced, queue, doing, seen, opVars, history>>

AudioTextsUnfinished(bytes) == {"ready", "processing"}
AudioTexts(bytes) == IF bytes /\ Configured THEN {"ready", "failed", "pending"} ELSE {"pending"}

\* The statuses a transcript may get: an asset can be READY while its transcript is
\* still a placeholder, or has failed.
Extraction(a, bytes) ==
  LET it == item[a] IN
  CASE it.reads \in {"text", "pdf"}            -> {"ready", "failed"}
    [] it.reads \in {"image", "video"} /\ it.caption -> {"ready"}
    [] it.reads = "image" -> IF (bytes \/ it.thumb) /\ Configured THEN {"ready", "pending"} ELSE {"pending"}
    [] it.reads = "video" -> AudioTexts(bytes) \cup (IF it.thumb /\ Configured THEN {"ready"} ELSE {})
    [] it.reads = "audio" -> AudioTexts(bytes)
    [] OTHER              -> {"pending"}

\* The transcript is extracted, and its row selected to be inserted or updated.
Extract(w) ==
  LET a == doing[w] IN
  /\ wpc[w] = "extract"
  /\ \E t \in IF seen[w].mode = "missing" THEN {"failed"} ELSE Extraction(a, seen[w].mode = "bytes") :
       seen' = [seen EXCEPT ![w].text = text[a], ![w].write = t]
  /\ wpc' = [wpc EXCEPT ![w] = "write"]
  /\ UNCHANGED <<rowVars, stored, announced, queue, doing, opVars, history>>

\* The commit fails as a whole when the row is gone or another session has inserted
\* the transcript that this one did not find.
Applies(w) == LET a == doing[w] IN HasRow(a) /\ ~(seen[w].text = "none" /\ text[a] # "none")

NewText(w) == Written(seen[w].text, seen[w].write, text[doing[w]])

\* The metadata of the outcome: stored bytes leave the JSON, an image has a preview.
NewMeta(w) ==
  LET a == doing[w] IN
  CASE seen[w].mode = "missing"   -> seen[w].meta \cup {"error"}
    [] seen[w].mode = "thumbnail" -> seen[w].meta
    [] OTHER -> (seen[w].meta \ {"inline"}) \cup (IF item[a].kind = "image" THEN {"preview"} ELSE {})

\* The row, its metadata and its transcript, in one commit.
Apply(w) ==
  LET a == doing[w] IN
  /\ status' = [status EXCEPT ![a] = IF seen[w].mode = "missing" THEN "failed" ELSE "ready"]
  /\ meta' = [meta EXCEPT ![a] = NewMeta(w)]
  /\ text' = [text EXCEPT ![a] = NewText(w)]
  /\ keyed' = IF seen[w].mode = "bytes" THEN keyed \cup {a} ELSE keyed
  /\ UNCHANGED item

ToRecover(w) == wpc' = [wpc EXCEPT ![w] = "recover"] /\ UNCHANGED <<doing, seen>>

Write(w) ==
  /\ wpc[w] = "write"
  /\ IF Applies(w) THEN Apply(w) /\ JobDone(w) ELSE UNCHANGED rowVars /\ ToRecover(w)
  /\ UNCHANGED <<stored, announced, queue, opVars, history>>

\* Without the except clause.
RaiseUnhandled(w) ==
  /\ wpc[w] \in {"load", "fetch", "extract", "write"}
  /\ JobDone(w)
  /\ UNCHANGED <<rowVars, stored, announced, queue, opVars, history>>

\* An exception of any step: a download, S3 or transport error (httpx errors are not
\* OpenAIIntegrationErrors), a database error, RQ's timeout.  A commit may have been
\* applied although it raised.
Raise(w) ==
  /\ wpc[w] \in {"load", "fetch", "extract", "write"}
  /\ ToRecover(w)
  /\ \/ UNCHANGED rowVars /\ contested' = IF wpc[w] = "load" THEN contested \cup {doing[w]} ELSE contested
     \/ /\ wpc[w] = "write" /\ Applies(w) /\ Apply(w)
        /\ contested' = contested \cup {doing[w]}
  /\ stored' \in {stored} \cup (IF wpc[w] = "fetch" THEN {stored \cup {doing[w]}} ELSE {})
  /\ UNCHANGED <<announced, queue, opVars, hit, overtaken>>

\* The except clause rolls back and loads the row again ...
Recover(w) ==
  LET a == doing[w] IN
  /\ wpc[w] = "recover"
  /\ IF HasRow(a)
     THEN /\ seen' = [seen EXCEPT ![w] = [NoCopy EXCEPT !.status = status[a], !.meta = meta[a]]]
          /\ contested' = IF Holders(a) = {w} THEN contested ELSE contested \cup {a}
          /\ wpc' = [wpc EXCEPT ![w] = "blame"]
          /\ UNCHANGED doing
     ELSE JobDone(w) /\ UNCHANGED contested
  /\ overtaken' = IF Uncommitted(a) THEN overtaken \cup {a} ELSE overtaken
  /\ UNCHANGED <<rowVars, stored, announced, queue, opVars, hit>>

\* ... selects its transcript ...
Blame(w) ==
  /\ wpc[w] = "blame"
  /\ seen' = [seen EXCEPT ![w].text = text[doing[w]], ![w].write = "failed"]
  /\ wpc' = [wpc EXCEPT ![w] = "mark"]
  /\ UNCHANGED <<rowVars, stored, announced, queue, doing, opVars, history>>

FailedMetaWithoutBytes(w) == {"error"}
FailedMeta(w) == seen[w].meta \cup {"error"}

\* ... and commits FAILED with the error in metadata and transcript; an error of that
\* commit is swallowed.
Mark(w) ==
  LET a == doing[w] IN
  /\ wpc[w] = "mark"
  /\ IF Applies(w)
     THEN /\ status' = [status EXCEPT ![a] = Written(seen[w].status, "failed", @)]
          /\ meta' = [meta EXCEPT ![a] = FailedMeta(w)]
          /\ text' = [text EXCEPT ![a] = NewText(w)]
          /\ UNCHANGED <<item, keyed, hit>>
     ELSE UNCHANGED rowVars /\ hit' = hit \cup {a}
  /\ JobDone(w)
  /\ UNCHANGED <<stored, announced, queue, opVars, overtaken, contested>>

\* The except clause itself fails, or the worker dies anywhere.
Die(w) ==
  /\ wpc[w] # "idle"
  /\ hit' = hit \cup {doing[w]}
  /\ JobDone(w)
  /\ UNCHANGED <<rowVars, stored, announced, queue, opVars, overtaken, contested>>

-----------------------------------------------------------------------------
(* The operations: each call of the reconcile endpoint runs some of them,  *)
(* one after the other.                                                    *)

Selected(op) ==
  {a \in Assets :
     CASE op = "cleanup"  -> status[a] = "failed" /\ item[a].bogus
       [] op = "pending"  -> status[a] = "pending"
       [] op = "retry"    -> status[a] = "failed"}

Select(o, op) ==
  LET rows == Selected(op) IN
  /\ opc[o] = "idle" /\ ops < MaxOps /\ rows # {}
  /\ ops' = ops + 1
  /\ opc' = [opc EXCEPT ![o] = op]
  /\ chosen' = [chosen EXCEPT ![o] = rows]
  /\ left' = [left EXCEPT ![o] = IF op \in {"pending", "retry"} THEN rows ELSE {}]
  /\ copy' = [copy EXCEPT ![o] = [a \in Assets |-> IF a \in rows THEN meta[a] ELSE {}]]
  /\ contested' = contested \cup {a \in rows : op # "pending" /\ Holders(a) # {}}
  /\ UNCHANGED <<rowVars, stored, announced, queue, workerVars, hit, overtaken>>

OpDone(o) == /\ opc' = [opc EXCEPT ![o] = "idle"]
             /\ chosen' = [chosen EXCEPT ![o] = {}]
             /\ left' = [left EXCEPT ![o] = {}]
             /\ copy' = [copy EXCEPT ![o] = [a \in Assets |-> {}]]

\* The rows are enqueued one by one; the retry commits only afterwards.
EnqueueNext(o, a) ==
  /\ a \in left[o]
  /\ queue' = [queue EXCEPT ![a] = @ + 1]
  /\ left' = [left EXCEPT ![o] = @ \ {a}]
  /\ UNCHANGED <<rowVars, stored, announced, workerVars, opc, chosen, copy, ops, history>>

\* The rows as the operation commits them: deleted by id, set back to PENDING without
\* their error, whatever they have become.
Commit(o) ==
  CASE opc[o] = "cleanup" ->
         /\ status' = [a \in Assets |-> IF a \in chosen[o] THEN "gone" ELSE status[a]]
         /\ text' = [a \in Assets |-> IF a \in chosen[o] THEN "none" ELSE text[a]]
         /\ meta' = [a \in Assets |-> IF a \in chosen[o] THEN {} ELSE meta[a]]
         /\ keyed' = keyed \ chosen[o]
         /\ UNCHANGED item
    [] opc[o] = "retry" ->
         /\ status' = [a \in Assets |-> IF a \in chosen[o] THEN "pending" ELSE status[a]]
         /\ meta' = [a \in Assets |-> IF a \notin chosen[o] THEN meta[a]
                                      ELSE Written(copy[o][a], copy[o][a] \ {"error"}, meta[a])]
         /\ UNCHANGED <<item, text, keyed>>
    [] OTHER -> UNCHANGED rowVars

\* An UPDATE of a deleted row fails the whole commit; a DELETE of one does not.
OpCommit(o) ==
  /\ opc[o] # "idle" /\ left[o] = {}
  /\ IF opc[o] = "cleanup" \/ \A a \in chosen[o] : HasRow(a) THEN Commit(o) ELSE UNCHANGED rowVars
  /\ OpDone(o)
  /\ UNCHANGED <<stored, announced, queue, workerVars, ops, history>>

\* Redis, the database or the process fails: what is queued stays queued, and nothing
\* is committed.
OpFails(o) ==
  /\ opc[o] # "idle"
  /\ OpDone(o)
  /\ UNCHANGED <<rowVars, stored, announced, queue, workerVars, ops, history>>

-----------------------------------------------------------------------------
WorkerStep(w) == Load(w) \/ Fetch(w) \/ Extract(w) \/ Write(w) \/ Recover(w) \/ Blame(w) \/ Mark(w)
OpStep(o) == OpCommit(o) \/ \E a \in Assets : EnqueueNext(o, a)
OpKinds == {"cleanup", "pending", "retry"}

Next ==
  \/ \E a \in Assets : Persist(a) \/ Announce(a) \/ AnnounceLost(a)
  \/ \E w \in Workers : \/ WorkerStep(w) \/ Raise(w) \/ Die(w)
                        \/ \E a \in Assets : Start(w, a)
  \/ \E o \in Ops : \/ OpStep(o) \/ OpFails(o)
                    \/ \E op \in OpKinds : Select(o, op)

Spec == Init /\ [][Next]_vars

\* Requests and jobs in progress go on, and workers take queued jobs.
Fairness ==
  /\ WF_vars(\E a \in Assets : Announce(a))
  /\ \A w \in Workers : WF_vars(WorkerStep(w))
  /\ WF_vars(\E w \in Workers, a \in Assets : Start(w, a))
  /\ \A o \in Ops : WF_vars(OpStep(o))

FairSpec == Spec /\ Fairness
-----------------------------------------------------------------------------
\* As long as an asset has its row, bytes that came with the message are in it or in S3,
\* whichever sessions write the metadata over each other.  (The cleanup deletes the row
\* of a failed asset, and with it the bytes that S3 does not have.)
BytesKept ==
  \A a \in Assets : HasRow(a) /\ item[a].inline = "valid" => "inline" \in meta[a] \/ a \in stored

\* What the rows say of each other: a key names an object that exists, and a settled
\* asset has a transcript row; unless its sessions collided, a READY asset has its
\* object in S3 or is an image with a preview, and a FAILED one says why in its
\* metadata and its transcript.
SettledIsBacked ==
  /\ keyed \subseteq stored
  /\ \A a \in Assets :
       /\ status[a] \in {"ready", "failed"} => text[a] # "none"
       /\ status[a] = "ready" /\ a \notin contested => a \in stored \/ "preview" \in meta[a]
       /\ status[a] = "failed" /\ a \notin contested => text[a] = "failed" /\ "error" \in meta[a]

\* A PENDING asset has a job ahead of it: about to be enqueued, queued, or running on a
\* row loaded as PENDING - unless its enqueue or its job was lost, or a job read
\* the row while a retry of it had not committed.
PendingAccounted ==
  \A a \in Assets :
    status[a] = "pending" /\ a \notin hit \cup overtaken =>
      \/ a \in announced \/ queue[a] > 0
      \/ \E w \in Workers : doing[w] = a /\ (wpc[w] \in {"load", "recover"} \/ seen[w].status = "pending")

\* A READY asset is not undone by a job, a retry or the cleanup unless two sessions held
\* it at once, or an error hid what had been committed.
ReadyIsFinal ==
  [][\A a \in Assets : status[a] = "ready" /\ status'[a] # "ready" => a \in contested']_vars

\* Every PENDING asset is settled, with the same exceptions.
AssetsSettle ==
  \A a \in Assets : status[a] = "pending" ~> status[a] # "pending" \/ a \in hit \cup overtaken
=============================================================================
