------------------------ MODULE MediaProcessing_proofs ------------------------
(***************************************************************************)
(* Proofs about MediaProcessing for every set of assets, uploads, workers  *)
(* and reconcile requests.                                                 *)
(***************************************************************************)
EXTENDS MediaProcessing, TLAPS

USE MediaAssumption

-----------------------------------------------------------------------------
(* Types.                                                                  *)

SeenRows == [status : Statuses, meta : SUBSET Facts, text : Texts, write : Texts,
             mode : {"none", "bytes", "thumbnail", "missing"}]

LEMMA NoCopyType ==
  /\ NoCopy \in SeenRows /\ NoCopy.status = "absent"
  /\ \A s \in Statuses, m \in SUBSET Facts, k \in {"none", "bytes", "thumbnail", "missing"} :
       /\ [NoCopy EXCEPT !.status = s, !.meta = m, !.mode = k] \in SeenRows
       /\ [NoCopy EXCEPT !.status = s, !.meta = m] \in SeenRows
BY DEF NoCopy, SeenRows, Statuses, Texts

LEMMA ItemType == ASSUME TypeOK, NEW a \in Assets PROVE item[a] \in Items
BY DEF TypeOK

LEMMA ModeType == \A a : Mode(a) \in {"bytes", "thumbnail", "missing"}
BY DEF Mode

LEMMA PreviewType == ASSUME TypeOK, NEW a \in Assets PROVE WithPreview(a) \in SUBSET Facts
BY DEF WithPreview, TypeOK, Facts

LEMMA ExtractionType ==
  ASSUME NEW a, NEW b PROVE Extraction(a, b) \subseteq {"ready", "failed", "pending"}
BY DEF Extraction, AudioTexts

LEMMA DoneTypes ==
  ASSUME TypeOK, NEW w \in Workers, JobDone(w)
  PROVE  /\ wpc' \in [Workers -> {"idle", "load", "fetch", "extract", "write", "recover", "blame", "mark"}]
         /\ doing' \in [Workers -> Assets \cup {NoAsset}]
         /\ seen' \in [Workers -> SeenRows]
BY NoCopyType DEF JobDone, TypeOK, SeenRows

\* The session of a worker that has chosen what to write to the transcript.
Chose(w, loaded, write) == [seen EXCEPT ![w].text = loaded, ![w].write = write]

LEMMA ChoseType ==
  ASSUME TypeOK, NEW w \in Workers, NEW l \in Texts, NEW t \in Texts
  PROVE  /\ Chose(w, l, t) \in [Workers -> SeenRows]
         /\ Chose(w, l, t)[w].status = seen[w].status /\ Chose(w, l, t)[w].meta = seen[w].meta
         /\ Chose(w, l, t)[w].mode = seen[w].mode
         /\ Chose(w, l, t)[w].text = l /\ Chose(w, l, t)[w].write = t
         /\ \A v \in Workers : v # w => Chose(w, l, t)[v] = seen[v]
<1> DEFINE first == [seen EXCEPT ![w].text = l]
<1>1. seen \in [Workers -> SeenRows]
  BY DEF TypeOK, SeenRows
<1>2. /\ first \in [Workers -> SeenRows] /\ first[w].text = l
      /\ first[w].status = seen[w].status /\ first[w].meta = seen[w].meta /\ first[w].mode = seen[w].mode
      /\ \A v \in Workers : v # w => first[v] = seen[v]
  BY <1>1 DEF SeenRows
<1> HIDE DEF first
<1>3. /\ [first EXCEPT ![w].write = t] \in [Workers -> SeenRows]
      /\ [first EXCEPT ![w].write = t][w].status = first[w].status
      /\ [first EXCEPT ![w].write = t][w].meta = first[w].meta
      /\ [first EXCEPT ![w].write = t][w].mode = first[w].mode
      /\ [first EXCEPT ![w].write = t][w].text = first[w].text
      /\ [first EXCEPT ![w].write = t][w].write = t
      /\ \A v \in Workers : v # w => [first EXCEPT ![w].write = t][v] = first[v]
  BY <1>2 DEF SeenRows
<1>4. Chose(w, l, t) = [first EXCEPT ![w].write = t]
  BY DEF Chose, first
<1> QED
  BY <1>2, <1>3, <1>4

\* A worker that has begun a job works on an asset; an idle one has none.
Busy == \A w \in Workers : doing[w] \in Assets <=> wpc[w] # "idle"

LEMMA TextTypes ==
  ASSUME TypeOK, NEW w \in Workers, doing[w] \in Assets
  PROVE  NewText(w) \in Texts /\ NewMeta(w) \in SUBSET Facts /\ FailedMeta(w) \in SUBSET Facts
<1>1. seen[w] \in SeenRows /\ text[doing[w]] \in Texts
  BY DEF TypeOK, SeenRows
<1> QED
  BY <1>1 DEF NewText, NewMeta, FailedMeta, Written, SeenRows, Facts

LEMMA ApplyTypes ==
  ASSUME TypeOK, NEW w \in Workers, doing[w] \in Assets, Apply(w)
  PROVE  /\ item' \in Uploads /\ status' \in [Assets -> Statuses] /\ text' \in [Assets -> Texts]
         /\ meta' \in [Assets -> SUBSET Facts] /\ keyed' \subseteq Assets
BY TextTypes DEF Apply, TypeOK, Statuses

LEMMA CommitTypes ==
  ASSUME TypeOK, NEW o \in Ops, Commit(o)
  PROVE  /\ item' \in Uploads /\ status' \in [Assets -> Statuses] /\ text' \in [Assets -> Texts]
         /\ meta' \in [Assets -> SUBSET Facts] /\ keyed' \subseteq Assets
<1>1. copy[o] \in [Assets -> SUBSET Facts]
  BY DEF TypeOK
<1>2. CASE opc[o] = "cleanup"
  BY <1>2 DEF Commit, TypeOK, Statuses, Texts
<1>3. CASE opc[o] = "retry"
  <2>1. \A a \in Assets : Written(copy[o][a], copy[o][a] \ {"error"}, meta[a]) \in SUBSET Facts
    BY <1>1 DEF Written, TypeOK
  <2>2. /\ UNCHANGED <<item, text, keyed>>
        /\ status' = [a \in Assets |-> IF a \in chosen[o] THEN "pending" ELSE status[a]]
        /\ meta' = [a \in Assets |-> IF a \notin chosen[o] THEN meta[a]
                                     ELSE Written(copy[o][a], copy[o][a] \ {"error"}, meta[a])]
    BY <1>3 DEF Commit
  <2> QED
    BY <2>1, <2>2 DEF TypeOK, Statuses
<1>4. CASE opc[o] \notin {"cleanup", "retry"}
  BY <1>4 DEF Commit, rowVars, TypeOK
<1> QED
  BY <1>2, <1>3, <1>4

LEMMA OpDoneTypes ==
  ASSUME TypeOK, NEW o \in Ops, OpDone(o)
  PROVE  /\ opc' \in [Ops -> {"idle", "cleanup", "pending", "retry"}]
         /\ chosen' \in [Ops -> SUBSET Assets] /\ left' \in [Ops -> SUBSET Assets]
         /\ copy' \in [Ops -> [Assets -> SUBSET Facts]]
BY DEF OpDone, TypeOK

Typed == TypeOK /\ Busy

LEMMA TypeInit == Init => Typed
<1> SUFFICES ASSUME Init PROVE Typed
  OBVIOUS
<1>1. TypeOK
  <2>1. seen \in [Workers -> SeenRows]
    BY NoCopyType DEF Init
  <2>2. /\ item \in Uploads /\ status \in [Assets -> Statuses] /\ text \in [Assets -> Texts]
        /\ meta \in [Assets -> SUBSET Facts] /\ queue \in [Assets -> Nat]
    BY DEF Init, Statuses, Texts
  <2>3. /\ wpc = [w \in Workers |-> "idle"] /\ doing = [w \in Workers |-> NoAsset]
        /\ opc = [o \in Ops |-> "idle"] /\ ops \in 0..MaxOps
        /\ keyed = {} /\ stored = {} /\ announced = {} /\ hit = {} /\ overtaken = {} /\ contested = {}
    BY DEF Init
  <2>4. /\ chosen \in [Ops -> SUBSET Assets] /\ left \in [Ops -> SUBSET Assets]
        /\ copy \in [Ops -> [Assets -> SUBSET Facts]]
    BY DEF Init
  <2> QED
    BY <2>1, <2>2, <2>3, <2>4 DEF TypeOK, SeenRows
<1> QED
  BY <1>1 DEF Init, Typed, Busy

LEMMA TypeStep == Typed /\ [Next]_vars => Typed'
<1> SUFFICES ASSUME Typed, [Next]_vars PROVE Typed'
  OBVIOUS
<1> USE DEF rowVars, workerVars, opVars, history
<1>0. TypeOK /\ Busy
  BY DEF Typed
<1>s. seen \in [Workers -> SeenRows]
  BY <1>0 DEF TypeOK, SeenRows
<1>1. ASSUME NEW a \in Assets, Persist(a) \/ Announce(a) \/ AnnounceLost(a) PROVE Typed'
  <2>1. CASE Persist(a)
    BY <1>0, <2>1 DEF Typed, Persist, TypeOK, Busy, Statuses, Facts
  <2>2. CASE Announce(a)
    BY <1>0, <2>2 DEF Typed, Announce, TypeOK, Busy
  <2>3. CASE AnnounceLost(a)
    BY <1>0, <2>3 DEF Typed, AnnounceLost, TypeOK, Busy
  <2> QED
    BY <1>1, <2>1, <2>2, <2>3
<1>2. ASSUME NEW w \in Workers, NEW a \in Assets, Start(w, a) PROVE Typed'
  BY <1>0, <1>2 DEF Typed, Start, TypeOK, Busy
<1>3. ASSUME NEW w \in Workers, wpc[w] # "idle" PROVE doing[w] \in Assets
  BY <1>0, <1>3 DEF Busy
<1>4. ASSUME NEW w \in Workers, JobDone(w) PROVE Busy'
  BY <1>0, <1>4 DEF Busy, JobDone, TypeOK
<1>5. ASSUME NEW w \in Workers, Load(w) PROVE Typed'
  <2>1. doing[w] \in Assets /\ wpc[w] = "load"
    BY <1>3, <1>5 DEF Load
  <2>2. /\ UNCHANGED <<rowVars, stored, announced, queue, opVars, hit>>
        /\ contested' \in {contested, contested \cup {doing[w]}}
        /\ overtaken' \in {overtaken, overtaken \cup {doing[w]}}
    BY <1>5 DEF Load
  <2>3. CASE status[doing[w]] = "pending"
    <3>1. wpc' = [wpc EXCEPT ![w] = IF Mode(doing[w]) = "bytes" THEN "fetch" ELSE "extract"] /\ UNCHANGED doing
      BY <1>5, <2>3 DEF Load
    <3>2. seen' = [seen EXCEPT ![w] = [NoCopy EXCEPT !.status = status[doing[w]],
                                         !.meta = WithPreview(doing[w]), !.mode = Mode(doing[w])]]
      BY <1>5, <2>3 DEF Load
    <3>3. seen' \in [Workers -> SeenRows]
      BY <1>0, <1>s, <2>1, <3>2, NoCopyType, ModeType, PreviewType DEF TypeOK
    <3> QED
      BY <1>0, <2>1, <2>2, <3>1, <3>3 DEF Typed, TypeOK, Busy, SeenRows
  <2>4. CASE status[doing[w]] # "pending"
    <3>1. JobDone(w)
      BY <1>5, <2>4 DEF Load
    <3> QED
      BY <1>0, <1>4, <2>1, <2>2, <3>1, DoneTypes DEF Typed, TypeOK, SeenRows
  <2> QED
    BY <2>3, <2>4
<1>6. ASSUME NEW w \in Workers, Fetch(w) PROVE Typed'
  <2>1. doing[w] \in Assets
    BY <1>3, <1>6 DEF Fetch
  <2> QED
    BY <1>0, <1>6, <2>1 DEF Typed, Fetch, TypeOK, Busy
<1>7. ASSUME NEW w \in Workers, Extract(w) \/ Blame(w) PROVE Typed'
  <2>1. doing[w] \in Assets
    BY <1>3, <1>7 DEF Extract, Blame
  <2>2. \E t \in Texts : seen' = Chose(w, text[doing[w]], t)
    <3>1. CASE Extract(w)
      <4>1. PICK t \in {"ready", "failed", "pending"} : seen' = Chose(w, text[doing[w]], t)
        <5>1. PICK t \in IF seen[w].mode = "missing" THEN {"failed"}
                         ELSE Extraction(doing[w], seen[w].mode = "bytes") :
                seen' = Chose(w, text[doing[w]], t)
          BY <3>1 DEF Extract, Chose
        <5>2. t \in {"ready", "failed", "pending"}
          BY <5>1, ExtractionType
        <5> QED
          BY <5>1, <5>2
      <4> QED
        BY <4>1 DEF Texts
    <3>2. CASE Blame(w)
      BY <3>2 DEF Blame, Chose, Texts
    <3> QED
      BY <1>7, <3>1, <3>2
  <2>3. seen' \in [Workers -> SeenRows]
    BY <1>0, <2>1, <2>2, ChoseType DEF TypeOK
  <2>4. /\ wpc' \in {[wpc EXCEPT ![w] = "write"], [wpc EXCEPT ![w] = "mark"]} /\ wpc[w] # "idle"
        /\ UNCHANGED <<rowVars, stored, announced, queue, doing, opVars, history>>
    BY <1>7 DEF Extract, Blame
  <2> QED
    BY <1>0, <2>3, <2>4 DEF Typed, TypeOK, Busy, SeenRows
<1>8. ASSUME NEW w \in Workers, Write(w) PROVE Typed'
  <2>1. doing[w] \in Assets /\ wpc[w] = "write"
    BY <1>3, <1>8 DEF Write
  <2>2. UNCHANGED <<stored, announced, queue, opVars, history>>
    BY <1>8 DEF Write
  <2>3. CASE Apply(w) /\ JobDone(w)
    BY <1>0, <1>4, <2>1, <2>2, <2>3, ApplyTypes, DoneTypes DEF Typed, TypeOK, SeenRows
  <2>4. CASE UNCHANGED rowVars /\ ToRecover(w)
    BY <1>0, <2>1, <2>2, <2>4 DEF Typed, TypeOK, Busy, ToRecover
  <2> QED
    BY <1>8, <2>3, <2>4 DEF Write
<1>9. ASSUME NEW w \in Workers, Raise(w) PROVE Typed'
  <2>1. doing[w] \in Assets /\ wpc[w] # "idle" /\ ToRecover(w)
    BY <1>3, <1>9 DEF Raise
  <2>2. /\ stored' \in {stored, stored \cup {doing[w]}} /\ contested' \in {contested, contested \cup {doing[w]}}
        /\ UNCHANGED <<announced, queue, opVars, hit, overtaken>>
    BY <1>9 DEF Raise
  <2>3. UNCHANGED rowVars \/ Apply(w)
    BY <1>9 DEF Raise
  <2>4. /\ item' \in Uploads /\ status' \in [Assets -> Statuses] /\ text' \in [Assets -> Texts]
        /\ meta' \in [Assets -> SUBSET Facts] /\ keyed' \subseteq Assets
    BY <1>0, <2>1, <2>3, ApplyTypes DEF TypeOK
  <2> QED
    BY <1>0, <2>1, <2>2, <2>4 DEF Typed, TypeOK, Busy, ToRecover
<1>10. ASSUME NEW w \in Workers, Recover(w) PROVE Typed'
  <2>1. doing[w] \in Assets /\ wpc[w] = "recover"
    BY <1>3, <1>10 DEF Recover
  <2>2. /\ UNCHANGED <<rowVars, stored, announced, queue, opVars, hit>>
        /\ contested' \in {contested, contested \cup {doing[w]}}
        /\ overtaken' \in {overtaken, overtaken \cup {doing[w]}}
    BY <1>10 DEF Recover
  <2>3. CASE HasRow(doing[w])
    <3>1. wpc' = [wpc EXCEPT ![w] = "blame"] /\ UNCHANGED doing
      BY <1>10, <2>3 DEF Recover
    <3>2. seen' = [seen EXCEPT ![w] = [NoCopy EXCEPT !.status = status[doing[w]], !.meta = meta[doing[w]]]]
      BY <1>10, <2>3 DEF Recover
    <3>3. seen' \in [Workers -> SeenRows]
      BY <1>0, <1>s, <2>1, <3>2, NoCopyType DEF TypeOK
    <3> QED
      BY <1>0, <2>1, <2>2, <3>1, <3>3 DEF Typed, TypeOK, Busy, SeenRows
  <2>4. CASE ~HasRow(doing[w])
    <3>1. JobDone(w)
      BY <1>10, <2>4 DEF Recover
    <3> QED
      BY <1>0, <1>4, <2>1, <2>2, <3>1, DoneTypes DEF Typed, TypeOK, SeenRows
  <2> QED
    BY <2>3, <2>4
<1>11. ASSUME NEW w \in Workers, Mark(w) \/ Die(w) PROVE Typed'
  <2>1. doing[w] \in Assets
    BY <1>3, <1>11 DEF Mark, Die
  <2>2. /\ JobDone(w) /\ UNCHANGED <<stored, announced, queue, opVars, overtaken, contested>>
        /\ hit' \in {hit, hit \cup {doing[w]}}
    BY <1>11 DEF Mark, Die
  <2>3. /\ item' \in Uploads /\ status' \in [Assets -> Statuses] /\ text' \in [Assets -> Texts]
        /\ meta' \in [Assets -> SUBSET Facts] /\ keyed' \subseteq Assets
    <3>1. CASE UNCHANGED rowVars
      BY <1>0, <3>1 DEF TypeOK
    <3>2. CASE Mark(w) /\ Applies(w)
      <4>1. /\ status' = [status EXCEPT ![doing[w]] = Written(seen[w].status, "failed", @)]
            /\ meta' = [meta EXCEPT ![doing[w]] = FailedMeta(w)]
            /\ text' = [text EXCEPT ![doing[w]] = NewText(w)]
            /\ UNCHANGED <<item, keyed>>
        BY <3>2 DEF Mark
      <4>2. Written(seen[w].status, "failed", status[doing[w]]) \in Statuses
        BY <1>0, <2>1 DEF Written, Statuses, TypeOK
      <4> QED
        BY <1>0, <2>1, <4>1, <4>2, TextTypes DEF TypeOK
    <3> QED
      BY <1>11, <3>1, <3>2 DEF Mark, Die
  <2> QED
    BY <1>0, <1>4, <2>2, <2>1, <2>3, DoneTypes DEF Typed, TypeOK, SeenRows
<1>12. ASSUME NEW o \in Ops, NEW op \in OpKinds, Select(o, op) PROVE Typed'
  <2>1. Selected(op) \in SUBSET Assets
    BY DEF Selected
  <2>2. /\ ops < MaxOps /\ ops' = ops + 1
        /\ opc' = [opc EXCEPT ![o] = op]
        /\ chosen' = [chosen EXCEPT ![o] = Selected(op)]
        /\ left' = [left EXCEPT ![o] = IF op \in {"pending", "retry"} THEN Selected(op) ELSE {}]
        /\ copy' = [copy EXCEPT ![o] = [a \in Assets |-> IF a \in Selected(op) THEN meta[a] ELSE {}]]
        /\ contested' = contested \cup {a \in Selected(op) : op # "pending" /\ Holders(a) # {}}
        /\ UNCHANGED <<rowVars, stored, announced, queue, workerVars, hit, overtaken>>
    BY <1>12 DEF Select
  <2>3. [a \in Assets |-> IF a \in Selected(op) THEN meta[a] ELSE {}] \in [Assets -> SUBSET Facts]
    BY <1>0 DEF TypeOK
  <2>4. /\ opc' \in [Ops -> {"idle", "cleanup", "pending", "retry"}] /\ ops' \in 0..MaxOps
        /\ chosen' \in [Ops -> SUBSET Assets] /\ left' \in [Ops -> SUBSET Assets]
        /\ copy' \in [Ops -> [Assets -> SUBSET Facts]] /\ contested' \subseteq Assets
    BY <1>0, <2>1, <2>2, <2>3 DEF TypeOK, OpKinds
  <2> QED
    BY <1>0, <2>2, <2>4 DEF Typed, TypeOK, Busy
<1>13. ASSUME NEW o \in Ops, NEW a \in Assets, EnqueueNext(o, a) PROVE Typed'
  BY <1>0, <1>13 DEF Typed, EnqueueNext, TypeOK, Busy
<1>14. ASSUME NEW o \in Ops, OpCommit(o) \/ OpFails(o) PROVE Typed'
  <2>1. OpDone(o) /\ UNCHANGED <<stored, announced, queue, workerVars, ops, history>>
    BY <1>14 DEF OpCommit, OpFails
  <2>2. UNCHANGED rowVars \/ Commit(o)
    BY <1>14 DEF OpCommit, OpFails
  <2>3. /\ item' \in Uploads /\ status' \in [Assets -> Statuses] /\ text' \in [Assets -> Texts]
        /\ meta' \in [Assets -> SUBSET Facts] /\ keyed' \subseteq Assets
    BY <1>0, <2>2, CommitTypes DEF TypeOK
  <2> QED
    BY <1>0, <2>1, <2>3, OpDoneTypes DEF Typed, TypeOK, Busy
<1>15. CASE UNCHANGED vars
  BY <1>0, <1>15 DEF Typed, TypeOK, Busy, vars
<1> QED
  BY <1>1, <1>2, <1>5, <1>6, <1>7, <1>8, <1>9, <1>10, <1>11, <1>12, <1>13, <1>14, <1>15
     DEF Next, WorkerStep, OpStep

\* The state of rows, jobs and operations stays well typed, for any number of each.
THEOREM TypeCorrect == Spec => []TypeOK
<1>1. Typed => TypeOK
  BY DEF Typed
<1> QED
  BY <1>1, TypeInit, TypeStep, PTL DEF Spec
-----------------------------------------------------------------------------
(* The bytes that came with a message: until S3 has them, they are in the  *)
(* row and in the copy of every session that will write the row back.      *)

Loaded(w)  == wpc[w] \in {"fetch", "extract", "write", "blame", "mark"}
Fetched(w) == wpc[w] \in {"extract", "write"}

Needs(a)    == item[a].inline = "valid" /\ a \notin stored
RowKeeps(a) == HasRow(a) => "inline" \in meta[a]
JobKeeps(w) == /\ Loaded(w) => "inline" \in seen[w].meta
               /\ Fetched(w) => seen[w].mode \in {"thumbnail", "missing"}
RetryKeeps(o, a) == opc[o] = "retry" /\ a \in chosen[o] => "inline" \in copy[o][a]

BytesInv ==
  \A a \in Assets : Needs(a) =>
    /\ RowKeeps(a)
    /\ \A w \in Workers : doing[w] = a => JobKeeps(w)
    /\ \A o \in Ops : RetryKeeps(o, a)

SameJob(w) == wpc'[w] = wpc[w] /\ doing'[w] = doing[w] /\ seen'[w] = seen[w]
SameOp(o)  == opc'[o] = opc[o] /\ chosen'[o] = chosen[o] /\ copy'[o] = copy[o]

\* A step keeps the bytes if each row, job and retry that it touches does.
LEMMA BytesByParts ==
  ASSUME BytesInv, item' = item, stored \subseteq stored',
         \A a \in Assets : Needs(a)' => (status'[a] = status[a] /\ meta'[a] = meta[a]) \/ RowKeeps(a)',
         \A w \in Workers : \/ SameJob(w)
                            \/ wpc'[w] \in {"idle", "load", "recover"}
                            \/ \A a \in Assets : Needs(a)' /\ doing'[w] = a => JobKeeps(w)',
         \A o \in Ops : \/ SameOp(o)
                        \/ opc'[o] # "retry"
                        \/ \A a \in Assets : Needs(a)' => RetryKeeps(o, a)'
  PROVE  BytesInv'
<1> SUFFICES ASSUME NEW a \in Assets, Needs(a)'
             PROVE  /\ RowKeeps(a)'
                    /\ \A w \in Workers : doing'[w] = a => JobKeeps(w)'
                    /\ \A o \in Ops : RetryKeeps(o, a)'
  BY DEF BytesInv
<1>1. /\ RowKeeps(a) /\ \A w \in Workers : doing[w] = a => JobKeeps(w)
      /\ \A o \in Ops : RetryKeeps(o, a)
  BY DEF BytesInv, Needs
<1>2. RowKeeps(a)'
  BY <1>1 DEF RowKeeps, HasRow
<1>3. ASSUME NEW w \in Workers, doing'[w] = a PROVE JobKeeps(w)'
  BY <1>1, <1>3 DEF JobKeeps, Loaded, Fetched, SameJob
<1>4. ASSUME NEW o \in Ops PROVE RetryKeeps(o, a)'
  BY <1>1, <1>4 DEF RetryKeeps, SameOp
<1> QED
  BY <1>2, <1>3, <1>4

LEMMA DoneSame ==
  ASSUME TypeOK, NEW w \in Workers, JobDone(w)
  PROVE  wpc'[w] = "idle" /\ \A v \in Workers : v # w => SameJob(v)
BY DEF JobDone, SameJob, TypeOK

LEMMA RecoverSame ==
  ASSUME TypeOK, NEW w \in Workers, ToRecover(w)
  PROVE  /\ wpc'[w] = "recover" /\ doing'[w] = doing[w] /\ seen'[w] = seen[w]
         /\ \A v \in Workers : v # w => SameJob(v)
BY DEF ToRecover, SameJob, TypeOK

LEMMA OpDoneSame ==
  ASSUME TypeOK, NEW o \in Ops, OpDone(o)
  PROVE  opc'[o] = "idle" /\ \A p \in Ops : p # o => SameOp(p)
BY DEF OpDone, SameOp, TypeOK

\* What a job writes has the bytes, or S3 has them.
LEMMA AppliedBytes ==
  ASSUME TypeOK, BytesInv, NEW w \in Workers, wpc[w] = "write", doing[w] \in Assets, Apply(w),
         NEW a \in Assets, Needs(a)
  PROVE  (status'[a] = status[a] /\ meta'[a] = meta[a]) \/ RowKeeps(a)'
<1>1. CASE a # doing[w]
  BY <1>1 DEF Apply, TypeOK
<1>2. CASE a = doing[w]
  <2>1. "inline" \in seen[w].meta /\ seen[w].mode \in {"thumbnail", "missing"}
    BY <1>2 DEF BytesInv, JobKeeps, Loaded, Fetched
  <2>2. "inline" \in NewMeta(w)
    BY <2>1 DEF NewMeta
  <2>3. meta'[a] = NewMeta(w)
    BY <1>2 DEF Apply, TypeOK
  <2> QED
    BY <2>2, <2>3 DEF RowKeeps
<1> QED
  BY <1>1, <1>2

LEMMA BytesStep == Typed /\ BytesInv /\ [Next]_vars => BytesInv'
<1> SUFFICES ASSUME Typed, BytesInv, [Next]_vars PROVE BytesInv'
  OBVIOUS
<1> USE DEF rowVars, workerVars, opVars, history
<1>0. TypeOK /\ Busy
  BY DEF Typed
<1>a. ASSUME NEW w \in Workers, wpc[w] # "idle" PROVE doing[w] \in Assets
  BY <1>0, <1>a DEF Busy
<1>b. (UNCHANGED workerVars => \A w \in Workers : SameJob(w)) /\ (UNCHANGED opVars => \A o \in Ops : SameOp(o))
  BY DEF SameJob, SameOp
<1>1. ASSUME NEW a \in Assets, Persist(a) PROVE BytesInv'
  <2>1. \A b \in Assets : b # a => status'[b] = status[b] /\ meta'[b] = meta[b]
    BY <1>0, <1>1 DEF Persist, TypeOK
  <2>2. Needs(a)' => meta'[a] = {"inline"}
    BY <1>0, <1>1 DEF Persist, TypeOK, Needs
  <2> QED
    BY <1>1, <1>b, <2>1, <2>2, BytesByParts DEF Persist, RowKeeps
<1>2. ASSUME NEW a \in Assets, Announce(a) \/ AnnounceLost(a) PROVE BytesInv'
  BY <1>2, <1>b, BytesByParts DEF Announce, AnnounceLost
<1>3. ASSUME NEW w \in Workers, NEW a \in Assets, Start(w, a) PROVE BytesInv'
  <2>1. wpc'[w] = "load" /\ \A v \in Workers : v # w => SameJob(v)
    BY <1>0, <1>3 DEF Start, SameJob, TypeOK
  <2> QED
    BY <1>3, <1>b, <2>1, BytesByParts DEF Start
<1>4. ASSUME NEW w \in Workers, Load(w) PROVE BytesInv'
  <2>1. doing[w] \in Assets
    BY <1>4, <1>a DEF Load
  <2>2. UNCHANGED <<rowVars, stored, opVars>>
    BY <1>4 DEF Load
  <2>3. CASE status[doing[w]] = "pending"
    <3> DEFINE copied == [NoCopy EXCEPT !.status = status[doing[w]], !.meta = WithPreview(doing[w]),
                                        !.mode = Mode(doing[w])]
    <3>1. /\ wpc' = [wpc EXCEPT ![w] = IF Mode(doing[w]) = "bytes" THEN "fetch" ELSE "extract"]
          /\ seen' = [seen EXCEPT ![w] = copied] /\ UNCHANGED doing
      BY <1>4, <2>3 DEF Load
    <3>2. copied.meta = WithPreview(doing[w]) /\ copied.mode = Mode(doing[w])
      BY DEF NoCopy
    <3> HIDE DEF copied
    <3>3. /\ seen'[w].meta = WithPreview(doing[w]) /\ seen'[w].mode = Mode(doing[w])
          /\ wpc'[w] = IF Mode(doing[w]) = "bytes" THEN "fetch" ELSE "extract"
          /\ \A v \in Workers : v # w => SameJob(v)
      BY <1>0, <3>1, <3>2 DEF SameJob, TypeOK
    <3>4. Needs(doing[w]) => "inline" \in WithPreview(doing[w])
      BY <2>1, <2>3 DEF BytesInv, RowKeeps, HasRow, WithPreview
    <3>5. \A a \in Assets : Needs(a)' /\ doing'[w] = a => JobKeeps(w)'
      BY <2>2, <3>1, <3>3, <3>4, ModeType DEF JobKeeps, Loaded, Fetched, Needs
    <3> QED
      BY <1>b, <2>2, <3>3, <3>5, BytesByParts
  <2>4. CASE status[doing[w]] # "pending"
    <3>1. JobDone(w)
      BY <1>4, <2>4 DEF Load
    <3> QED
      BY <1>0, <1>b, <2>2, <3>1, DoneSame, BytesByParts
  <2> QED
    BY <2>3, <2>4
<1>5. ASSUME NEW w \in Workers, Fetch(w) PROVE BytesInv'
  <2>1. doing'[w] \in stored' /\ stored \subseteq stored' /\ UNCHANGED <<rowVars, opVars>>
    BY <1>5 DEF Fetch
  <2>2. \A v \in Workers : v # w => SameJob(v)
    BY <1>0, <1>5 DEF Fetch, SameJob, TypeOK
  <2> QED
    BY <1>b, <2>1, <2>2, BytesByParts DEF Needs
<1>6. ASSUME NEW w \in Workers, Extract(w) PROVE BytesInv'
  <2>1. doing[w] \in Assets
    BY <1>6, <1>a DEF Extract
  <2>2. PICK t \in Texts : seen' = Chose(w, text[doing[w]], t)
    <3>1. PICK t \in IF seen[w].mode = "missing" THEN {"failed"}
                     ELSE Extraction(doing[w], seen[w].mode = "bytes") :
            seen' = Chose(w, text[doing[w]], t)
      BY <1>6 DEF Extract, Chose
    <3>2. t \in {"ready", "failed", "pending"}
      BY <3>1, ExtractionType
    <3> QED
      BY <3>1, <3>2 DEF Texts
  <2>3. text[doing[w]] \in Texts
    BY <1>0, <2>1 DEF TypeOK
  <2>4. /\ seen'[w].meta = seen[w].meta /\ seen'[w].mode = seen[w].mode
        /\ \A v \in Workers : v # w => seen'[v] = seen[v]
    BY <1>0, <2>2, <2>3, ChoseType
  <2>5. /\ wpc[w] = "extract" /\ wpc'[w] = "write" /\ doing' = doing
        /\ \A v \in Workers : v # w => wpc'[v] = wpc[v]
        /\ UNCHANGED <<rowVars, stored, opVars>>
    BY <1>0, <1>6 DEF Extract, TypeOK
  <2>6. \A a \in Assets : Needs(a)' /\ doing'[w] = a => JobKeeps(w)'
    BY <2>4, <2>5 DEF BytesInv, Needs, JobKeeps, Loaded, Fetched
  <2> QED
    BY <1>b, <2>4, <2>5, <2>6, BytesByParts DEF SameJob
<1>7. ASSUME NEW w \in Workers, Write(w) PROVE BytesInv'
  <2>1. doing[w] \in Assets /\ wpc[w] = "write" /\ UNCHANGED <<stored, opVars>>
    BY <1>7, <1>a DEF Write
  <2>2. CASE Apply(w) /\ JobDone(w)
    <3>1. item' = item
      BY <2>2 DEF Apply
    <3>2. \A a \in Assets : Needs(a)' => (status'[a] = status[a] /\ meta'[a] = meta[a]) \/ RowKeeps(a)'
      BY <1>0, <2>1, <2>2, <3>1, AppliedBytes DEF Needs
    <3> QED
      BY <1>0, <1>b, <2>1, <2>2, <3>1, <3>2, DoneSame, BytesByParts
  <2>3. CASE UNCHANGED rowVars /\ ToRecover(w)
    BY <1>0, <1>b, <2>1, <2>3, RecoverSame, BytesByParts
  <2> QED
    BY <1>7, <2>2, <2>3 DEF Write
<1>8. ASSUME NEW w \in Workers, Raise(w) PROVE BytesInv'
  <2>1. doing[w] \in Assets /\ ToRecover(w) /\ stored \subseteq stored' /\ UNCHANGED opVars
    BY <1>8, <1>a DEF Raise
  <2>2. UNCHANGED rowVars \/ (wpc[w] = "write" /\ Apply(w))
    BY <1>8 DEF Raise
  <2>3. item' = item
    BY <2>2 DEF Apply
  <2>4. \A a \in Assets : Needs(a)' => (status'[a] = status[a] /\ meta'[a] = meta[a]) \/ RowKeeps(a)'
    BY <1>0, <2>1, <2>2, <2>3, AppliedBytes DEF Needs
  <2> QED
    BY <1>0, <1>b, <2>1, <2>3, <2>4, RecoverSame, BytesByParts
<1>9. ASSUME NEW w \in Workers, Recover(w) PROVE BytesInv'
  <2>1. doing[w] \in Assets
    BY <1>9, <1>a DEF Recover
  <2>2. UNCHANGED <<rowVars, stored, opVars>>
    BY <1>9 DEF Recover
  <2>3. CASE HasRow(doing[w])
    <3> DEFINE copied == [NoCopy EXCEPT !.status = status[doing[w]], !.meta = meta[doing[w]]]
    <3>1. /\ wpc' = [wpc EXCEPT ![w] = "blame"]
          /\ seen' = [seen EXCEPT ![w] = copied] /\ UNCHANGED doing
      BY <1>9, <2>3 DEF Recover
    <3>2. copied.meta = meta[doing[w]]
      BY DEF NoCopy
    <3> HIDE DEF copied
    <3>3. /\ seen'[w].meta = meta[doing[w]] /\ wpc'[w] = "blame"
          /\ \A v \in Workers : v # w => SameJob(v)
      BY <1>0, <3>1, <3>2 DEF SameJob, TypeOK
    <3>4. Needs(doing[w]) => "inline" \in meta[doing[w]]
      BY <2>1, <2>3 DEF BytesInv, RowKeeps
    <3>5. \A a \in Assets : Needs(a)' /\ doing'[w] = a => JobKeeps(w)'
      BY <2>2, <3>1, <3>3, <3>4 DEF JobKeeps, Loaded, Fetched, Needs
    <3> QED
      BY <1>b, <2>2, <3>3, <3>5, BytesByParts
  <2>4. CASE ~HasRow(doing[w])
    <3>1. JobDone(w)
      BY <1>9, <2>4 DEF Recover
    <3> QED
      BY <1>0, <1>b, <2>2, <3>1, DoneSame, BytesByParts
  <2> QED
    BY <2>3, <2>4
<1>10. ASSUME NEW w \in Workers, Blame(w) PROVE BytesInv'
  <2>1. doing[w] \in Assets
    BY <1>10, <1>a DEF Blame
  <2>2. text[doing[w]] \in Texts /\ "failed" \in Texts
    BY <1>0, <2>1 DEF TypeOK, Texts
  <2>3. /\ seen'[w].meta = seen[w].meta /\ \A v \in Workers : v # w => seen'[v] = seen[v]
    <3>1. seen' = Chose(w, text[doing[w]], "failed")
      BY <1>10 DEF Blame, Chose
    <3> QED
      BY <1>0, <2>2, <3>1, ChoseType
  <2>4. /\ wpc[w] = "blame" /\ wpc'[w] = "mark" /\ doing' = doing
        /\ \A v \in Workers : v # w => wpc'[v] = wpc[v]
        /\ UNCHANGED <<rowVars, stored, opVars>>
    BY <1>0, <1>10 DEF Blame, TypeOK
  <2>5. \A a \in Assets : Needs(a)' /\ doing'[w] = a => JobKeeps(w)'
    BY <2>3, <2>4 DEF BytesInv, Needs, JobKeeps, Loaded, Fetched
  <2> QED
    BY <1>b, <2>3, <2>4, <2>5, BytesByParts DEF SameJob
<1>11. ASSUME NEW w \in Workers, Mark(w) \/ Die(w) PROVE BytesInv'
  <2>1. JobDone(w) /\ UNCHANGED <<item, stored, opVars>>
    BY <1>11 DEF Mark, Die
  <2>2. CASE UNCHANGED rowVars
    BY <1>0, <1>b, <2>1, <2>2, DoneSame, BytesByParts
  <2>3. CASE Mark(w) /\ Applies(w)
    <3>1. /\ status' = [status EXCEPT ![doing[w]] = Written(seen[w].status, "failed", @)]
          /\ meta' = [meta EXCEPT ![doing[w]] = FailedMeta(w)] /\ wpc[w] = "mark"
      BY <2>3 DEF Mark
    <3>2. doing[w] \in Assets
      BY <3>1, <1>a
    <3>3. ASSUME NEW a \in Assets, Needs(a)
          PROVE  (status'[a] = status[a] /\ meta'[a] = meta[a]) \/ RowKeeps(a)'
      <4>1. CASE a # doing[w]
        BY <1>0, <3>1, <4>1 DEF TypeOK
      <4>2. CASE a = doing[w]
        <5>1. "inline" \in FailedMeta(w)
          BY <3>1, <3>3, <4>2 DEF BytesInv, JobKeeps, Loaded, FailedMeta
        <5>2. meta'[a] = FailedMeta(w)
          BY <1>0, <3>1, <4>2 DEF TypeOK
        <5> QED
          BY <5>1, <5>2 DEF RowKeeps
      <4> QED
        BY <4>1, <4>2
    <3> QED
      BY <1>0, <1>b, <2>1, <3>3, DoneSame, BytesByParts DEF Needs
  <2> QED
    BY <1>11, <2>2, <2>3 DEF Mark, Die
<1>12. ASSUME NEW o \in Ops, NEW op \in OpKinds, Select(o, op) PROVE BytesInv'
  <2>1. /\ opc' = [opc EXCEPT ![o] = op]
        /\ chosen' = [chosen EXCEPT ![o] = Selected(op)]
        /\ copy' = [copy EXCEPT ![o] = [a \in Assets |-> IF a \in Selected(op) THEN meta[a] ELSE {}]]
        /\ UNCHANGED <<rowVars, stored, workerVars>>
    BY <1>12 DEF Select
  <2>2. /\ \A p \in Ops : p # o => SameOp(p)
        /\ opc'[o] = op /\ chosen'[o] = Selected(op)
        /\ copy'[o] = [a \in Assets |-> IF a \in Selected(op) THEN meta[a] ELSE {}]
    BY <1>0, <2>1 DEF SameOp, TypeOK
  <2>3. ASSUME NEW a \in Assets, Needs(a)', op = "retry", a \in Selected(op) PROVE "inline" \in copy'[o][a]
    <3>1. HasRow(a)
      BY <2>3 DEF Selected, HasRow
    <3>2. "inline" \in meta[a]
      BY <2>1, <2>3, <3>1 DEF BytesInv, Needs, RowKeeps
    <3> QED
      BY <2>2, <2>3, <3>2
  <2> QED
    BY <1>b, <2>1, <2>2, <2>3, BytesByParts DEF RetryKeeps
<1>13. ASSUME NEW o \in Ops, NEW a \in Assets, EnqueueNext(o, a) PROVE BytesInv'
  <2>1. UNCHANGED <<rowVars, stored, workerVars, opc, chosen, copy>>
    BY <1>13 DEF EnqueueNext
  <2> QED
    BY <1>b, <2>1, BytesByParts DEF SameOp
<1>14. ASSUME NEW o \in Ops, OpCommit(o) \/ OpFails(o) PROVE BytesInv'
  <2>1. OpDone(o) /\ UNCHANGED <<stored, workerVars>>
    BY <1>14 DEF OpCommit, OpFails
  <2>2. UNCHANGED rowVars \/ (opc[o] \in {"cleanup", "retry"} /\ Commit(o)
                                /\ (opc[o] = "retry" => \A a \in chosen[o] : HasRow(a)))
    BY <1>14 DEF OpCommit, OpFails, Commit
  <2>3. CASE UNCHANGED rowVars
    BY <1>0, <1>b, <2>1, <2>3, OpDoneSame, BytesByParts
  <2>4. CASE opc[o] = "cleanup" /\ Commit(o)
    <3>1. /\ status' = [a \in Assets |-> IF a \in chosen[o] THEN "gone" ELSE status[a]]
          /\ meta' = [a \in Assets |-> IF a \in chosen[o] THEN {} ELSE meta[a]] /\ item' = item
      BY <2>4 DEF Commit
    <3>2. \A a \in Assets : (status'[a] = status[a] /\ meta'[a] = meta[a]) \/ RowKeeps(a)'
      BY <3>1 DEF RowKeeps, HasRow
    <3> QED
      BY <1>0, <1>b, <2>1, <3>1, <3>2, OpDoneSame, BytesByParts
  <2>5. CASE opc[o] = "retry" /\ Commit(o) /\ \A a \in chosen[o] : HasRow(a)
    <3>1. /\ status' = [a \in Assets |-> IF a \in chosen[o] THEN "pending" ELSE status[a]]
          /\ meta' = [a \in Assets |-> IF a \notin chosen[o] THEN meta[a]
                                       ELSE Written(copy[o][a], copy[o][a] \ {"error"}, meta[a])]
          /\ item' = item
      BY <2>5 DEF Commit
    <3>2. ASSUME NEW a \in Assets, Needs(a), a \in chosen[o] PROVE "inline" \in meta'[a]
      <4>1. "inline" \in copy[o][a] /\ "inline" \in meta[a]
        BY <2>5, <3>2 DEF BytesInv, RowKeeps, RetryKeeps
      <4> QED
        BY <3>1, <3>2, <4>1 DEF Written
    <3>3. \A a \in Assets : Needs(a) => (status'[a] = status[a] /\ meta'[a] = meta[a]) \/ RowKeeps(a)'
      BY <3>1, <3>2 DEF RowKeeps
    <3> QED
      BY <1>0, <1>b, <2>1, <3>1, <3>3, OpDoneSame, BytesByParts DEF Needs
  <2> QED
    BY <2>2, <2>3, <2>4, <2>5
<1>15. CASE UNCHANGED vars
  BY <1>15, <1>b, BytesByParts DEF vars
<1> QED
  BY <1>1, <1>2, <1>3, <1>4, <1>5, <1>6, <1>7, <1>8, <1>9, <1>10, <1>11, <1>12, <1>13, <1>14, <1>15
     DEF Next, WorkerStep, OpStep

\* The bytes that came with a message are in the row of the asset, as long as there is one,
\* until S3 has them, whatever jobs and operations write the metadata over each other.
THEOREM BytesAreKept == Spec => []BytesKept
<1>1. Init => BytesInv
  BY DEF Init, BytesInv, RowKeeps, HasRow, JobKeeps, Loaded, Fetched, RetryKeeps
<1>2. BytesInv => BytesKept
  BY DEF BytesInv, BytesKept, Needs, RowKeeps
<1> QED
  BY <1>1, <1>2, TypeInit, TypeStep, BytesStep, PTL DEF Spec

-----------------------------------------------------------------------------
(* Pending assets: each has a job ahead of it.  A retry enqueues its rows  *)
(* before it commits them as PENDING, so until then their jobs must not    *)
(* have looked at the rows.                                                *)

Looks(w, a) == doing[w] = a /\ wpc[w] \in {"load", "recover"}
Works(w, a) == doing[w] = a /\ seen[w].status = "pending"
Soon(a)     == queue[a] > 0 \/ \E w \in Workers : Looks(w, a)
Ahead(a)    == a \in announced \/ queue[a] > 0 \/ \E w \in Workers : Looks(w, a) \/ Works(w, a)
Excused(a)  == a \in hit \cup overtaken
Retrying(o, a) == opc[o] = "retry" /\ a \in chosen[o] /\ a \notin left[o]

PendInv ==
  /\ \A a \in Assets : status[a] = "pending" /\ ~Excused(a) => Ahead(a)
  /\ \A a \in Assets, o \in Ops : Retrying(o, a) /\ ~Excused(a) => Soon(a)

LEMMA PendingByParts ==
  ASSUME PendInv, hit \subseteq hit', overtaken \subseteq overtaken',
         \A a \in Assets : status'[a] = "pending" /\ ~Excused(a)' =>
           (status[a] = "pending" /\ (Ahead(a) => Ahead(a)')) \/ Ahead(a)',
         \A a \in Assets, o \in Ops : Retrying(o, a)' /\ ~Excused(a)' =>
           (Retrying(o, a) /\ (Soon(a) => Soon(a)')) \/ Soon(a)'
  PROVE  PendInv'
BY DEF PendInv, Excused

\* A step of one worker leaves the jobs ahead of other assets alone.
LEMMA OthersAhead ==
  ASSUME NEW w \in Workers, \A v \in Workers : v # w => SameJob(v), UNCHANGED <<queue, announced>>,
         NEW a \in Assets, doing[w] # a
  PROVE  (Ahead(a) => Ahead(a)') /\ (Soon(a) => Soon(a)')
BY DEF Ahead, Soon, Looks, Works, SameJob

\* Nor do they miss a worker that was not ahead of its own asset.
LEMMA OwnAhead ==
  ASSUME NEW w \in Workers, \A v \in Workers : v # w => SameJob(v), UNCHANGED <<queue, announced>>,
         wpc[w] \notin {"load", "recover"}, NEW a \in Assets
  PROVE  (seen[w].status # "pending" /\ Ahead(a) => Ahead(a)') /\ (Soon(a) => Soon(a)')
BY DEF Ahead, Soon, Looks, Works, SameJob

LEMMA PendingStep == Typed /\ PendInv /\ [Next]_vars => PendInv'
<1> SUFFICES ASSUME Typed, PendInv, [Next]_vars PROVE PendInv'
  OBVIOUS
<1> USE DEF rowVars, workerVars, opVars, history
<1>0. TypeOK /\ Busy
  BY DEF Typed
<1>a. ASSUME NEW w \in Workers, wpc[w] # "idle" PROVE doing[w] \in Assets
  BY <1>0, <1>a DEF Busy
<1>b. UNCHANGED opVars => \A o \in Ops, a \in Assets : Retrying(o, a)' <=> Retrying(o, a)
  BY DEF Retrying
<1>c. UNCHANGED <<queue, announced, workerVars>> =>
        \A a \in Assets : (Ahead(a)' <=> Ahead(a)) /\ (Soon(a)' <=> Soon(a))
  BY DEF Ahead, Soon, Looks, Works
<1>1. ASSUME NEW a \in Assets, Persist(a) PROVE PendInv'
  <2>1. Ahead(a)' /\ \A b \in Assets : (Ahead(b) => Ahead(b)') /\ (Soon(b)' <=> Soon(b))
    BY <1>1 DEF Persist, Ahead, Soon, Looks, Works
  <2>2. \A b \in Assets : b # a => status'[b] = status[b]
    BY <1>0, <1>1 DEF Persist, TypeOK
  <2> QED
    BY <1>1, <1>b, <2>1, <2>2, PendingByParts DEF Persist
<1>2. ASSUME NEW a \in Assets, Announce(a) PROVE PendInv'
  <2>1. queue'[a] > 0 /\ \A b \in Assets : b # a => queue'[b] = queue[b]
    BY <1>0, <1>2 DEF Announce, TypeOK
  <2>2. \A b \in Assets : b # a => (b \in announced => b \in announced')
    BY <1>2 DEF Announce
  <2>3. \A b \in Assets : (Ahead(b) => Ahead(b)') /\ (Soon(b) => Soon(b)')
    BY <1>2, <2>1, <2>2 DEF Announce, Ahead, Soon, Looks, Works
  <2> QED
    BY <1>2, <1>b, <2>3, PendingByParts DEF Announce
<1>3. ASSUME NEW a \in Assets, AnnounceLost(a) PROVE PendInv'
  <2>1. \A b \in Assets : b # a => (Ahead(b) => Ahead(b)')
    BY <1>3 DEF AnnounceLost, Ahead, Looks, Works
  <2>2. \A b \in Assets : Soon(b) => Soon(b)'
    BY <1>3 DEF AnnounceLost, Soon, Looks
  <2>3. Excused(a)' /\ UNCHANGED <<status, overtaken, opVars>> /\ hit \subseteq hit'
    BY <1>3 DEF AnnounceLost, Excused
  <2> QED
    BY <1>b, <2>1, <2>2, <2>3, PendingByParts
<1>4. ASSUME NEW w \in Workers, NEW a \in Assets, Start(w, a) PROVE PendInv'
  <2>1. /\ doing[w] \notin Assets /\ doing'[w] = a /\ wpc'[w] = "load"
        /\ \A v \in Workers : v # w => SameJob(v)
        /\ \A b \in Assets : b # a => queue'[b] = queue[b]
    BY <1>0, <1>4 DEF Start, TypeOK, Busy, SameJob
  <2>2. Ahead(a)' /\ Soon(a)'
    BY <2>1 DEF Ahead, Soon, Looks
  <2>3. \A b \in Assets : b # a => (Ahead(b) => Ahead(b)') /\ (Soon(b) => Soon(b)')
    BY <1>4, <2>1 DEF Start, Ahead, Soon, Looks, Works, SameJob
  <2> QED
    BY <1>4, <1>b, <2>2, <2>3, PendingByParts DEF Start
<1>d. ASSUME NEW w \in Workers, NEW d \in Assets, d = doing[w], \A v \in Workers : v # w => SameJob(v),
             UNCHANGED <<queue, announced, opVars>>, hit \subseteq hit', overtaken \subseteq overtaken',
             \A a \in Assets : a # d => status'[a] = status[a],
             status'[d] = "pending" /\ ~Excused(d)' =>
               (status[d] = "pending" /\ (Ahead(d) => Ahead(d)')) \/ Ahead(d)',
             \A o \in Ops : Retrying(o, d) /\ ~Excused(d)' => (Soon(d) => Soon(d)') \/ Soon(d)'
      PROVE  PendInv'
  <2>1. \A a \in Assets : a # d => (Ahead(a) => Ahead(a)') /\ (Soon(a) => Soon(a)')
    BY <1>d, OthersAhead
  <2>2. \A o \in Ops, a \in Assets : Retrying(o, a)' <=> Retrying(o, a)
    BY <1>b, <1>d
  <2>3. \A a \in Assets : status'[a] = "pending" /\ ~Excused(a)' =>
          (status[a] = "pending" /\ (Ahead(a) => Ahead(a)')) \/ Ahead(a)'
    BY <1>d, <2>1
  <2>4. \A a \in Assets, o \in Ops : Retrying(o, a)' /\ ~Excused(a)' =>
          (Retrying(o, a) /\ (Soon(a) => Soon(a)')) \/ Soon(a)'
    BY <1>d, <2>1, <2>2
  <2> QED
    BY <1>d, <2>3, <2>4, PendingByParts
<1>5. ASSUME NEW w \in Workers, Load(w) PROVE PendInv'
  <2>1. UNCHANGED <<rowVars, queue, announced, opVars, hit>>
    BY <1>5 DEF Load
  <2>2. PICK d \in Assets : d = doing[w]
    BY <1>5, <1>a DEF Load
  <2>3. overtaken' = IF Uncommitted(d) THEN overtaken \cup {d} ELSE overtaken
    BY <1>5, <2>2 DEF Load
  <2>4. ~Excused(d)' => \A o \in Ops : ~Retrying(o, d)
    BY <2>3 DEF Uncommitted, Retrying, Excused
  <2>5. \A v \in Workers : v # w => SameJob(v)
    BY <1>0, <1>5 DEF Load, JobDone, SameJob, TypeOK
  <2>6. status[d] = "pending" => Ahead(d)'
    <3> DEFINE copied == [NoCopy EXCEPT !.status = status[d], !.meta = WithPreview(d), !.mode = Mode(d)]
    <3>1. status[d] = "pending" => seen' = [seen EXCEPT ![w] = copied] /\ UNCHANGED doing
      BY <1>5, <2>2 DEF Load
    <3>2. copied.status = status[d]
      BY DEF NoCopy
    <3> HIDE DEF copied
    <3> QED
      BY <1>0, <2>2, <3>1, <3>2 DEF Ahead, Works, TypeOK
  <2> QED
    BY <1>d, <2>1, <2>2, <2>3, <2>4, <2>5, <2>6
<1>6. ASSUME NEW w \in Workers, Fetch(w) \/ Extract(w) \/ Blame(w) PROVE PendInv'
  <2>1. /\ wpc[w] \in {"fetch", "extract", "blame"}
        /\ UNCHANGED <<status, doing, queue, announced, opVars, hit, overtaken>>
    BY <1>6 DEF Fetch, Extract, Blame
  <2>2. PICK d \in Assets : d = doing[w]
    BY <1>a, <2>1
  <2>3. seen'[w].status = seen[w].status /\ \A v \in Workers : v # w => seen'[v] = seen[v]
    <3>1. CASE Fetch(w)
      BY <3>1 DEF Fetch
    <3>2. text[d] \in Texts /\ "failed" \in Texts
      BY <1>0 DEF TypeOK, Texts
    <3>3. CASE Extract(w)
      <4>1. PICK t \in IF seen[w].mode = "missing" THEN {"failed"}
                       ELSE Extraction(d, seen[w].mode = "bytes") : seen' = Chose(w, text[d], t)
        BY <2>2, <3>3 DEF Extract, Chose
      <4>2. t \in {"ready", "failed", "pending"}
        BY <4>1, ExtractionType
      <4>3. t \in Texts
        BY <4>2 DEF Texts
      <4> QED
        BY <1>0, <3>2, <4>1, <4>3, ChoseType
    <3>4. CASE Blame(w)
      <4>1. seen' = Chose(w, text[d], "failed")
        BY <2>2, <3>4 DEF Blame, Chose
      <4> QED
        BY <1>0, <3>2, <4>1, ChoseType
    <3> QED
      BY <1>6, <3>1, <3>3, <3>4
  <2>4. \A v \in Workers : v # w => wpc'[v] = wpc[v]
    BY <1>0, <1>6 DEF Fetch, Extract, Blame, TypeOK
  <2>5. \A v \in Workers : v # w => SameJob(v)
    BY <2>1, <2>3, <2>4 DEF SameJob
  <2>6. \A v \in Workers, a \in Assets : (Looks(v, a) => Looks(v, a)') /\ (Works(v, a) => Works(v, a)')
    BY <2>1, <2>3, <2>4 DEF Looks, Works
  <2>7. \A a \in Assets : (Ahead(a) => Ahead(a)') /\ (Soon(a) => Soon(a)')
    BY <2>1, <2>6 DEF Ahead, Soon
  <2> QED
    BY <1>d, <2>1, <2>2, <2>5, <2>7
<1>e. ASSUME NEW w \in Workers, NEW d \in Assets, d = doing[w], ToRecover(w) PROVE Soon(d)' /\ Ahead(d)'
  BY <1>0, <1>e, RecoverSame DEF Soon, Ahead, Looks
<1>f. ASSUME NEW w \in Workers, NEW d \in Assets, d = doing[w], Apply(w)
      PROVE  status'[d] # "pending" /\ \A a \in Assets : a # d => status'[a] = status[a]
  BY <1>0, <1>f DEF Apply, TypeOK
<1>7. ASSUME NEW w \in Workers, Write(w) PROVE PendInv'
  <2>1. wpc[w] = "write" /\ UNCHANGED <<queue, announced, opVars, hit, overtaken>>
    BY <1>7 DEF Write
  <2>2. PICK d \in Assets : d = doing[w]
    BY <1>a, <2>1
  <2>3. CASE Apply(w) /\ JobDone(w)
    <3>1. \A v \in Workers : v # w => SameJob(v)
      BY <1>0, <2>3, DoneSame
    <3>2. Soon(d) => Soon(d)'
      BY <2>1, <3>1, OwnAhead
    <3> QED
      BY <1>d, <1>f, <2>1, <2>2, <2>3, <3>1, <3>2
  <2>4. CASE UNCHANGED rowVars /\ ToRecover(w)
    <3>1. \A v \in Workers : v # w => SameJob(v)
      BY <1>0, <2>4, RecoverSame
    <3> QED
      BY <1>d, <1>e, <2>1, <2>2, <2>4, <3>1
  <2> QED
    BY <1>7, <2>3, <2>4 DEF Write
<1>8. ASSUME NEW w \in Workers, Raise(w) PROVE PendInv'
  <2>1. /\ wpc[w] # "idle" /\ ToRecover(w)
        /\ UNCHANGED <<queue, announced, opVars, hit, overtaken>> /\ (UNCHANGED rowVars \/ Apply(w))
    BY <1>8 DEF Raise
  <2>2. PICK d \in Assets : d = doing[w]
    BY <1>a, <2>1
  <2>3. \A v \in Workers : v # w => SameJob(v)
    BY <1>0, <2>1, RecoverSame
  <2>4. \A a \in Assets : a # d => status'[a] = status[a]
    BY <1>f, <2>1, <2>2
  <2> QED
    BY <1>d, <1>e, <2>1, <2>2, <2>3, <2>4
<1>9. ASSUME NEW w \in Workers, Recover(w) PROVE PendInv'
  <2>1. UNCHANGED <<rowVars, queue, announced, opVars, hit>>
    BY <1>9 DEF Recover
  <2>2. PICK d \in Assets : d = doing[w]
    BY <1>9, <1>a DEF Recover
  <2>3. overtaken' = IF Uncommitted(d) THEN overtaken \cup {d} ELSE overtaken
    BY <1>9, <2>2 DEF Recover
  <2>4. ~Excused(d)' => \A o \in Ops : ~Retrying(o, d)
    BY <2>3 DEF Uncommitted, Retrying, Excused
  <2>5. \A v \in Workers : v # w => SameJob(v)
    BY <1>0, <1>9 DEF Recover, JobDone, SameJob, TypeOK
  <2>6. status[d] = "pending" => Ahead(d)'
    <3> DEFINE copied == [NoCopy EXCEPT !.status = status[d], !.meta = meta[d]]
    <3>1. status[d] = "pending" => seen' = [seen EXCEPT ![w] = copied] /\ UNCHANGED doing
      BY <1>9, <2>2 DEF Recover, HasRow
    <3>2. copied.status = status[d]
      BY DEF NoCopy
    <3> HIDE DEF copied
    <3> QED
      BY <1>0, <2>2, <3>1, <3>2 DEF Ahead, Works, TypeOK
  <2> QED
    BY <1>d, <2>1, <2>2, <2>3, <2>4, <2>5, <2>6
<1>10. ASSUME NEW w \in Workers, Mark(w) PROVE PendInv'
  <2>1. /\ wpc[w] = "mark" /\ JobDone(w)
        /\ UNCHANGED <<queue, announced, opVars, overtaken>>
    BY <1>10 DEF Mark
  <2>2. PICK d \in Assets : d = doing[w]
    BY <1>a, <2>1
  <2>3. \A v \in Workers : v # w => SameJob(v)
    BY <1>0, <2>1, DoneSame
  <2>4. CASE Applies(w)
    <3>1. status' = [status EXCEPT ![d] = Written(seen[w].status, "failed", @)] /\ UNCHANGED hit
      BY <1>10, <2>2, <2>4 DEF Mark
    <3>2. \A a \in Assets : a # d => status'[a] = status[a]
      BY <1>0, <3>1 DEF TypeOK
    <3>3. status'[d] = "pending" => status[d] = "pending" /\ seen[w].status # "pending"
      BY <1>0, <3>1 DEF Written, TypeOK
    <3>4. (seen[w].status # "pending" /\ Ahead(d) => Ahead(d)') /\ (Soon(d) => Soon(d)')
      BY <2>1, <2>3, OwnAhead
    <3> QED
      BY <1>d, <2>1, <2>2, <2>3, <3>1, <3>2, <3>3, <3>4
  <2>5. CASE ~Applies(w)
    <3>1. UNCHANGED rowVars /\ hit' = hit \cup {d}
      BY <1>10, <2>2, <2>5 DEF Mark
    <3>2. Excused(d)'
      BY <3>1 DEF Excused
    <3> QED
      BY <1>d, <2>1, <2>2, <2>3, <3>1, <3>2
  <2> QED
    BY <2>4, <2>5
<1>11. ASSUME NEW w \in Workers, Die(w) PROVE PendInv'
  <2>1. PICK d \in Assets : d = doing[w]
    BY <1>11, <1>a DEF Die
  <2>2. /\ JobDone(w) /\ UNCHANGED <<rowVars, queue, announced, opVars, overtaken>>
        /\ hit' = hit \cup {d}
    BY <1>11, <2>1 DEF Die
  <2>3. \A v \in Workers : v # w => SameJob(v)
    BY <1>0, <2>2, DoneSame
  <2>4. Excused(d)'
    BY <2>2 DEF Excused
  <2> QED
    BY <1>d, <2>1, <2>2, <2>3, <2>4
<1>12. ASSUME NEW o \in Ops, NEW op \in OpKinds, Select(o, op) PROVE PendInv'
  <2>1. /\ opc' = [opc EXCEPT ![o] = op]
        /\ chosen' = [chosen EXCEPT ![o] = Selected(op)]
        /\ left' = [left EXCEPT ![o] = IF op \in {"pending", "retry"} THEN Selected(op) ELSE {}]
        /\ UNCHANGED <<rowVars, queue, announced, workerVars, hit, overtaken>>
    BY <1>12 DEF Select
  <2>2. \A p \in Ops, a \in Assets : Retrying(p, a)' => Retrying(p, a)
    BY <1>0, <2>1 DEF Retrying, TypeOK
  <2> QED
    BY <1>c, <2>1, <2>2, PendingByParts
<1>13. ASSUME NEW o \in Ops, NEW a \in Assets, EnqueueNext(o, a) PROVE PendInv'
  <2>1. /\ queue' = [queue EXCEPT ![a] = @ + 1] /\ left' = [left EXCEPT ![o] = @ \ {a}]
        /\ UNCHANGED <<rowVars, announced, workerVars, opc, chosen, history>>
    BY <1>13 DEF EnqueueNext
  <2>2. queue'[a] > 0 /\ \A b \in Assets : b # a => queue'[b] = queue[b]
    BY <1>0, <2>1 DEF TypeOK
  <2>3. Soon(a)' /\ \A b \in Assets : (Ahead(b) => Ahead(b)') /\ (Soon(b) => Soon(b)')
    BY <2>1, <2>2 DEF Ahead, Soon, Looks, Works
  <2>4. \A p \in Ops, b \in Assets : b # a => (Retrying(p, b)' => Retrying(p, b))
    BY <1>0, <2>1 DEF Retrying, TypeOK
  <2> QED
    BY <2>1, <2>3, <2>4, PendingByParts
<1>14. ASSUME NEW o \in Ops, OpCommit(o) \/ OpFails(o) PROVE PendInv'
  <2>1. OpDone(o) /\ UNCHANGED <<queue, announced, workerVars, history>>
    BY <1>14 DEF OpCommit, OpFails
  <2>2. \A p \in Ops, a \in Assets : Retrying(p, a)' => Retrying(p, a)
    BY <1>0, <2>1 DEF OpDone, Retrying, TypeOK
  <2>3. ASSUME NEW a \in Assets, status'[a] = "pending", ~Excused(a)'
        PROVE  status[a] = "pending" \/ Ahead(a)'
    <3>1. CASE status'[a] = status[a]
      BY <2>3, <3>1
    <3>2. CASE status'[a] # status[a]
      <4>1. /\ left[o] = {} /\ Commit(o) /\ opc[o] \in {"cleanup", "retry"}
        BY <1>14, <3>2 DEF OpCommit, OpFails, Commit
      <4>2. opc[o] = "retry" /\ a \in chosen[o]
        BY <2>3, <3>2, <4>1 DEF Commit
      <4>3. Soon(a)
        BY <2>1, <2>3, <4>1, <4>2 DEF PendInv, Retrying, Excused
      <4> QED
        BY <1>c, <2>1, <4>3 DEF Soon, Ahead
    <3> QED
      BY <3>1, <3>2
  <2> QED
    BY <1>c, <2>1, <2>2, <2>3, PendingByParts
<1>15. CASE UNCHANGED vars
  <2>1. UNCHANGED <<status, queue, announced, workerVars, opVars, hit, overtaken>>
    BY <1>15 DEF vars
  <2> QED
    BY <1>b, <1>c, <2>1, PendingByParts
<1> QED
  BY <1>1, <1>2, <1>3, <1>4, <1>5, <1>6, <1>7, <1>8, <1>9, <1>10, <1>11, <1>12, <1>13, <1>14, <1>15
     DEF Next, WorkerStep, OpStep

\* A pending asset has a job ahead of it unless its enqueue or its job was lost or a job
\* overtook the commit of its retry, for any number of assets, workers and operations.
THEOREM PendingHasAJob == Spec => []PendingAccounted
<1>1. Init => PendInv
  BY DEF Init, PendInv, Retrying
<1>2. PendInv => PendingAccounted
  BY DEF PendInv, PendingAccounted, Excused, Ahead, Looks, Works
<1> QED
  BY <1>1, <1>2, TypeInit, TypeStep, PendingStep, PTL DEF Spec
-----------------------------------------------------------------------------
(* Settled assets: at most one session at a time has a row that is not     *)
(* contested, the row is as that session found it, and the session has     *)
(* what its outcome will claim.                                            *)

Held(w, a)  == doing[w] = a /\ wpc[w] \in {"fetch", "extract", "write", "recover", "blame", "mark"}
Owns(o, a)  == a \in chosen[o] /\ opc[o] \in {"cleanup", "retry"}
Deciding(w) == wpc[w] \in {"write", "mark"}

\* What a READY or FAILED row says of its object, its preview and its transcript.
Backed(a) ==
  /\ status[a] \in {"ready", "failed"} => text[a] # "none"
  /\ status[a] = "ready" /\ a \notin contested => a \in stored \/ "preview" \in meta[a]
  /\ status[a] = "failed" /\ a \notin contested => text[a] = "failed" /\ "error" \in meta[a]

Prepared(w) ==
  /\ wpc[w] = "fetch" => seen[w].mode = "bytes"
  /\ Fetched(w) => \/ seen[w].mode = "bytes" /\ doing[w] \in stored
                   \/ seen[w].mode = "thumbnail" /\ "preview" \in seen[w].meta
                   \/ seen[w].mode = "missing"
  /\ wpc[w] = "mark" \/ (wpc[w] = "write" /\ seen[w].mode = "missing") => seen[w].write = "failed"
  /\ Deciding(w) => /\ seen[w].write # "none"
                    /\ seen[w].text # "none" /\ status[doing[w]] # "gone" => text[doing[w]] # "none"

Undisputed(a) ==
  a \notin contested =>
    /\ \A w \in Workers : Held(w, a) => status[a] = "pending" /\ (Deciding(w) => seen[w].text = text[a])
    /\ \A o \in Ops : Owns(o, a) => status[a] = "failed"
    /\ \A v, w \in Workers : Held(v, a) /\ Held(w, a) => v = w
    /\ \A o, p \in Ops : Owns(o, a) /\ Owns(p, a) => o = p

SettledInv ==
  /\ keyed \subseteq stored
  /\ \A a \in Assets : Backed(a) /\ Undisputed(a)
  /\ \A w \in Workers : Prepared(w)

SameRow(a) == status'[a] = status[a] /\ text'[a] = text[a] /\ meta'[a] = meta[a]

\* A row that is deleted stays so, and a transcript is deleted only with its row.
GoesOn(a) == status'[a] = "gone" \/ (status[a] # "gone" /\ (text[a] # "none" => text'[a] # "none"))

\* No session joins those that hold the row.
NoneJoins(a) == /\ \A w \in Workers : Held(w, a)' => SameJob(w)
                /\ \A o \in Ops : Owns(o, a)' => Owns(o, a)

\* A step keeps the invariant if each row and job that it touches does.
LEMMA SettledByParts ==
  ASSUME Typed, Busy', SettledInv, keyed' \subseteq stored', stored \subseteq stored', contested \subseteq contested',
         \A a \in Assets : SameRow(a) \/ (GoesOn(a) /\ Backed(a)'),
         \A a \in Assets : (SameRow(a) /\ NoneJoins(a)) \/ Undisputed(a)',
         \A w \in Workers : SameJob(w) \/ Prepared(w)'
  PROVE  SettledInv'
<1>1. ASSUME NEW a \in Assets PROVE Backed(a)'
  BY DEF SettledInv, Backed, SameRow
<1>2. ASSUME NEW a \in Assets PROVE Undisputed(a)'
  <2>1. CASE SameRow(a) /\ NoneJoins(a)
    <3>1. ASSUME NEW w \in Workers, Held(w, a)'
          PROVE  Held(w, a) /\ seen'[w] = seen[w] /\ (Deciding(w)' <=> Deciding(w))
      BY <2>1, <3>1 DEF NoneJoins, Held, SameJob, Deciding
    <3>2. \A o \in Ops : Owns(o, a)' => Owns(o, a)
      BY <2>1 DEF NoneJoins
    <3>3. Undisputed(a)
      BY DEF SettledInv
    <3> QED
      BY <2>1, <3>1, <3>2, <3>3 DEF Undisputed, SameRow
  <2> QED
    BY <2>1
<1>3. ASSUME NEW w \in Workers PROVE Prepared(w)'
  <2>1. CASE SameJob(w) /\ ~Deciding(w)
    BY <2>1 DEF SettledInv, Prepared, SameJob, Deciding, Fetched
  <2>2. CASE SameJob(w) /\ Deciding(w)
    <3>1. PICK d \in Assets : d = doing[w]
      BY <2>2 DEF Typed, Busy, Deciding
    <3>2. SameRow(d) \/ GoesOn(d)
      OBVIOUS
    <3>3. Prepared(w)
      BY DEF SettledInv
    <3>4. text[d] # "none" /\ status'[d] # "gone" => text'[d] # "none"
      BY <3>2 DEF SameRow, GoesOn
    <3>5. status'[d] # "gone" => status[d] # "gone"
      BY <3>2 DEF SameRow, GoesOn
    <3> QED
      BY <2>2, <3>1, <3>3, <3>4, <3>5 DEF Prepared, SameJob, Deciding, Fetched
  <2> QED
    BY <2>1, <2>2
<1> QED
  BY <1>1, <1>2, <1>3 DEF SettledInv

\* The step of one worker, at its own asset.
LEMMA SettledAtOne ==
  ASSUME Typed, Busy', SettledInv, keyed' \subseteq stored', stored \subseteq stored', contested \subseteq contested',
         NEW w \in Workers, NEW d \in Assets, d = doing[w] \/ ~Held(w, d)',
         \A v \in Workers : v # w => SameJob(v), \A a \in Assets : a # d => ~Held(w, a)',
         UNCHANGED <<opc, chosen>>,
         \A a \in Assets : a # d => SameRow(a),
         SameRow(d) \/ (GoesOn(d) /\ Backed(d)'),
         (SameRow(d) /\ ~Held(w, d)') \/ Undisputed(d)',
         Prepared(w)'
  PROVE  SettledInv'
<1>1. \A o \in Ops, a \in Assets : Owns(o, a)' => Owns(o, a)
  BY DEF Owns
<1>2. \A a \in Assets : (SameRow(a) /\ NoneJoins(a)) \/ Undisputed(a)'
  BY <1>1 DEF NoneJoins
<1> QED
  BY <1>2, SettledByParts
\* The session that holds the row goes on with it.
LEMMA Continues ==
  ASSUME SettledInv, NEW w \in Workers, NEW d \in Assets, Held(w, d), contested \subseteq contested',
         \A v \in Workers : v # w => SameJob(v), UNCHANGED <<opc, chosen>>,
         status'[d] = status[d], text'[d] = text[d],
         Deciding(w)' => seen'[w].text = text[d]
  PROVE  Undisputed(d)'
<1>1. ASSUME NEW v \in Workers, Held(v, d)' PROVE Held(v, d) /\ (v # w => (Deciding(v)' <=> Deciding(v)) /\ seen'[v] = seen[v])
  BY <1>1 DEF Held, SameJob, Deciding
<1>2. \A o \in Ops : Owns(o, d)' <=> Owns(o, d)
  BY DEF Owns
<1>3. Undisputed(d)
  BY DEF SettledInv
<1> QED
  BY <1>1, <1>2, <1>3 DEF Undisputed

\* The session that holds the row leaves it, and no other has it.
LEMMA Released ==
  ASSUME SettledInv, NEW w \in Workers, NEW d \in Assets, Held(w, d), ~Held(w, d)', contested \subseteq contested',
         \A v \in Workers : v # w => SameJob(v), UNCHANGED <<opc, chosen>>
  PROVE  Undisputed(d)'
<1>1. ASSUME NEW v \in Workers, Held(v, d)' PROVE Held(v, d) /\ v # w
  BY <1>1 DEF Held, SameJob
<1>2. \A o \in Ops : Owns(o, d)' <=> Owns(o, d)
  BY DEF Owns
<1>3. Undisputed(d)
  BY DEF SettledInv
<1> QED
  BY <1>1, <1>2, <1>3 DEF Undisputed

\* A job reads the row: it is the only one to, or the row is contested from now on.
LEMMA SettledLoad ==
  ASSUME Typed, Typed', SettledInv, NEW w \in Workers, Load(w)
  PROVE  SettledInv'
<1>0. TypeOK /\ Busy /\ Busy'
  BY DEF Typed
<1>1. PICK d \in Assets : d = doing[w]
  BY <1>0 DEF Load, Busy
<1>2. /\ wpc[w] = "load" /\ contested \subseteq contested'
      /\ UNCHANGED <<rowVars, stored, opVars>>
  BY DEF Load
<1>3. /\ \A a \in Assets : SameRow(a)
      /\ keyed' \subseteq stored' /\ stored \subseteq stored' /\ UNCHANGED <<opc, chosen>>
  BY <1>2 DEF SameRow, SettledInv, rowVars, opVars
<1>4. CASE status[d] # "pending"
  <2>1. JobDone(w)
    BY <1>1, <1>4 DEF Load
  <2>2. wpc'[w] = "idle" /\ \A v \in Workers : v # w => SameJob(v)
    BY <1>0, <2>1, DoneSame
  <2>3. Prepared(w)' /\ \A a \in Assets : ~Held(w, a)'
    BY <2>2 DEF Prepared, Fetched, Deciding, Held
  <2> QED
    BY <1>0, <1>1, <1>2, <1>3, <2>2, <2>3, SettledAtOne
<1>5. CASE status[d] = "pending"
  <2> DEFINE copied == [NoCopy EXCEPT !.status = status[d], !.meta = WithPreview(d), !.mode = Mode(d)]
  <2>1. /\ wpc' = [wpc EXCEPT ![w] = IF Mode(d) = "bytes" THEN "fetch" ELSE "extract"]
        /\ seen' = [seen EXCEPT ![w] = copied] /\ UNCHANGED doing
        /\ contested' = IF Holders(d) = {} THEN contested ELSE contested \cup {d}
    BY <1>1, <1>5 DEF Load
  <2>2. copied.meta = WithPreview(d) /\ copied.mode = Mode(d)
    BY DEF NoCopy
  <2> HIDE DEF copied
  <2>3. /\ seen'[w].meta = WithPreview(d) /\ seen'[w].mode = Mode(d)
        /\ wpc'[w] = IF Mode(d) = "bytes" THEN "fetch" ELSE "extract"
        /\ \A v \in Workers : v # w => SameJob(v)
    BY <1>0, <2>1, <2>2 DEF SameJob, TypeOK
  <2>4. Prepared(w)'
    <3>1. Mode(d) = "thumbnail" => "preview" \in WithPreview(d)
      BY DEF Mode
    <3> QED
      BY <2>3, <3>1, ModeType DEF Prepared, Fetched, Deciding
  <2>5. Undisputed(d)'
    <3>1. SUFFICES ASSUME d \notin contested' PROVE Undisputed(d)'
      BY DEF Undisputed
    <3>2. Holders(d) = {}
      BY <2>1, <3>1
    <3>3. \A v \in Workers : ~Held(v, d)
      BY <3>2 DEF Holders, Held
    <3>4. \A o \in Ops : ~Owns(o, d)
      BY <3>2 DEF Holders, Owns
    <3>5. \A v \in Workers : Held(v, d)' => v = w
      BY <2>3, <3>3 DEF Held, SameJob
    <3>6. ~Deciding(w)'
      BY <2>3 DEF Deciding
    <3>7. \A o \in Ops : ~Owns(o, d)'
      BY <1>3, <3>4 DEF Owns
    <3> QED
      BY <1>3, <1>5, <3>5, <3>6, <3>7 DEF Undisputed, SameRow
  <2>6. \A a \in Assets : a # d => ~Held(w, a)'
    BY <1>1, <2>1 DEF Held
  <2> QED
    BY <1>0, <1>1, <1>2, <1>3, <2>3, <2>4, <2>5, <2>6, SettledAtOne
<1> QED
  BY <1>4, <1>5

\* A job stores the bytes, extracts the transcript, or selects the one it will blame.
LEMMA SettledWork ==
  ASSUME Typed, Typed', SettledInv, NEW w \in Workers, Fetch(w) \/ Extract(w) \/ Blame(w)
  PROVE  SettledInv'
<1>0. TypeOK /\ Busy /\ Busy'
  BY DEF Typed
<1>1. /\ wpc[w] \in {"fetch", "extract", "blame"}
      /\ UNCHANGED <<rowVars, doing, opVars, history>>
  BY DEF Fetch, Extract, Blame
<1>2. PICK d \in Assets : d = doing[w]
  BY <1>0, <1>1 DEF Busy
<1>3. Held(w, d) /\ \A a \in Assets : a # d => ~Held(w, a)'
  BY <1>1, <1>2 DEF Held
<1>4. /\ \A a \in Assets : SameRow(a)
      /\ keyed' = keyed /\ UNCHANGED <<opc, chosen>> /\ contested' = contested
  BY <1>1 DEF SameRow, rowVars, opVars, history
<1>5. CASE Fetch(w)
  <2>1. /\ stored' = stored \cup {d} /\ wpc[w] = "fetch" /\ wpc'[w] = "extract" /\ seen' = seen
        /\ \A v \in Workers : v # w => SameJob(v)
    BY <1>0, <1>2, <1>5 DEF Fetch, SameJob, TypeOK
  <2>2. Prepared(w)'
    BY <1>1, <1>2, <2>1 DEF SettledInv, Prepared, Fetched, Deciding
  <2>3. Undisputed(d)'
    BY <1>3, <1>4, <2>1, Continues DEF Deciding, SameRow
  <2>4. keyed' \subseteq stored' /\ stored \subseteq stored'
    BY <1>4, <2>1 DEF SettledInv
  <2> QED
    BY <1>0, <1>2, <1>3, <1>4, <2>1, <2>2, <2>3, <2>4, SettledAtOne
<1>6. ASSUME NEW t \in Texts, t # "none", seen' = Chose(w, text[d], t), stored' = stored,
             wpc' = [wpc EXCEPT ![w] = "write"] \/ wpc' = [wpc EXCEPT ![w] = "mark"],
             wpc'[w] = "write" => wpc[w] = "extract" /\ (seen[w].mode = "missing" => t = "failed"),
             wpc'[w] = "mark" => t = "failed"
      PROVE  SettledInv'
  <2>1. text[d] \in Texts
    BY <1>0 DEF TypeOK
  <2>2. /\ seen'[w].meta = seen[w].meta /\ seen'[w].mode = seen[w].mode
        /\ seen'[w].text = text[d] /\ seen'[w].write = t
        /\ \A v \in Workers : v # w => seen'[v] = seen[v]
    BY <1>0, <1>6, <2>1, ChoseType
  <2>3. wpc'[w] \in {"write", "mark"} /\ \A v \in Workers : v # w => wpc'[v] = wpc[v]
    BY <1>0, <1>6 DEF TypeOK
  <2>4. \A v \in Workers : v # w => SameJob(v)
    BY <1>1, <2>2, <2>3 DEF SameJob
  <2>5. Prepared(w)'
    <3>1. text'[d] = text[d] /\ doing'[w] = d
      BY <1>1, <1>2 DEF rowVars
    <3>2. Fetched(w)' => Fetched(w)
      BY <1>6, <2>3 DEF Fetched
    <3>3. Prepared(w)
      BY DEF SettledInv
    <3> QED
      BY <1>2, <1>6, <2>2, <2>3, <3>1, <3>2, <3>3 DEF Prepared, Fetched, Deciding
  <2>6. Undisputed(d)'
    BY <1>3, <1>4, <2>2, <2>4, Continues DEF SameRow
  <2>7. keyed' \subseteq stored' /\ stored \subseteq stored'
    BY <1>4, <1>6 DEF SettledInv
  <2> QED
    BY <1>0, <1>2, <1>3, <1>4, <2>4, <2>5, <2>6, <2>7, SettledAtOne
<1>7. CASE Extract(w)
  <2>1. PICK t \in IF seen[w].mode = "missing" THEN {"failed"}
                   ELSE Extraction(d, seen[w].mode = "bytes") : seen' = Chose(w, text[d], t)
    BY <1>2, <1>7 DEF Extract, Chose
  <2>2. t \in {"ready", "failed", "pending"} /\ (seen[w].mode = "missing" => t = "failed")
    BY <2>1, ExtractionType
  <2>3. wpc[w] = "extract" /\ wpc' = [wpc EXCEPT ![w] = "write"] /\ wpc'[w] = "write" /\ stored' = stored
    BY <1>0, <1>7 DEF Extract, TypeOK
  <2>4. t \in Texts /\ t # "none"
    BY <2>2 DEF Texts
  <2> QED
    BY <1>6, <2>1, <2>2, <2>3, <2>4
<1>8. CASE Blame(w)
  <2>1. seen' = Chose(w, text[d], "failed")
    BY <1>2, <1>8 DEF Blame, Chose
  <2>2. wpc' = [wpc EXCEPT ![w] = "mark"] /\ wpc'[w] = "mark" /\ stored' = stored
    BY <1>0, <1>8 DEF Blame, TypeOK
  <2>3. "failed" \in Texts
    BY DEF Texts
  <2> QED
    BY <1>6, <2>1, <2>2, <2>3
<1> QED
  BY <1>5, <1>7, <1>8
\* The row an outcome is written to says what the session has prepared.
LEMMA AppliedBacked ==
  ASSUME Typed, SettledInv, NEW w \in Workers, NEW d \in Assets, d = doing[w], wpc[w] = "write",
         Applies(w), Apply(w), stored \subseteq stored'
  PROVE  /\ \A a \in Assets : a # d => SameRow(a)
         /\ GoesOn(d) /\ keyed' \subseteq stored'
         /\ (d \in contested' \/ (d \notin contested /\ Held(w, d)) => Backed(d)')
<1>0. TypeOK
  BY DEF Typed
<1>1. /\ status'[d] = (IF seen[w].mode = "missing" THEN "failed" ELSE "ready")
      /\ meta'[d] = NewMeta(w) /\ text'[d] = NewText(w)
      /\ keyed' = IF seen[w].mode = "bytes" THEN keyed \cup {d} ELSE keyed
  BY <1>0 DEF Apply, TypeOK
<1>2. \A a \in Assets : a # d => SameRow(a)
  BY <1>0 DEF Apply, TypeOK, SameRow
<1>3. /\ seen[w].write # "none"
      /\ seen[w].text # "none" /\ status[d] # "gone" => text[d] # "none"
      /\ \/ seen[w].mode = "bytes" /\ d \in stored
         \/ seen[w].mode = "thumbnail" /\ "preview" \in seen[w].meta
         \/ seen[w].mode = "missing" /\ seen[w].write = "failed"
  BY DEF SettledInv, Prepared, Fetched, Deciding
<1>4. status[d] # "gone"
  BY DEF Applies, HasRow
<1>5. NewText(w) # "none"
  BY <1>3, <1>4 DEF NewText, Written
<1>6. keyed' \subseteq stored'
  BY <1>1, <1>3 DEF SettledInv
<1>7. GoesOn(d)
  BY <1>1, <1>4, <1>5 DEF GoesOn
<1>8. ASSUME d \in contested' PROVE Backed(d)'
  BY <1>1, <1>5, <1>8 DEF Backed
<1>9. ASSUME d \notin contested, Held(w, d) PROVE Backed(d)'
  <2>1. seen[w].text = text[d]
    BY <1>9 DEF SettledInv, Undisputed, Deciding
  <2>2. CASE seen[w].mode = "bytes" /\ d \in stored
    BY <1>1, <1>5, <2>2 DEF Backed
  <2>3. CASE seen[w].mode = "thumbnail" /\ "preview" \in seen[w].meta
    <3>1. NewMeta(w) = seen[w].meta
      BY <2>3 DEF NewMeta
    <3> QED
      BY <1>1, <1>5, <2>3, <3>1 DEF Backed
  <2>4. CASE seen[w].mode = "missing" /\ seen[w].write = "failed"
    <3>1. NewMeta(w) = seen[w].meta \cup {"error"}
      BY <2>4 DEF NewMeta
    <3>2. NewText(w) = "failed"
      BY <2>1, <2>4 DEF NewText, Written
    <3> QED
      BY <1>1, <2>4, <3>1, <3>2 DEF Backed
  <2> QED
    BY <1>3, <2>2, <2>3, <2>4
<1> QED
  BY <1>2, <1>6, <1>7, <1>8, <1>9

\* The outcome is committed, or the commit fails and the except clause takes over.
LEMMA SettledWrite ==
  ASSUME Typed, Typed', SettledInv, NEW w \in Workers, Write(w) \/ Raise(w)
  PROVE  SettledInv'
<1>0. TypeOK /\ Busy /\ Busy'
  BY DEF Typed
<1>1. PICK d \in Assets : d = doing[w]
  BY <1>0 DEF Write, Raise, Busy
<1>2. UNCHANGED <<opc, chosen>> /\ stored \subseteq stored' /\ contested \subseteq contested'
  BY <1>1 DEF Write, Raise, opVars, history
<1>3. ASSUME ToRecover(w)
      PROVE  /\ \A v \in Workers : v # w => SameJob(v)
             /\ \A a \in Assets : a # d => ~Held(w, a)'
             /\ Prepared(w)' /\ ~Deciding(w)'
  BY <1>0, <1>1, <1>3, RecoverSame DEF Held, Prepared, Fetched, Deciding
<1>4. ASSUME UNCHANGED rowVars, ToRecover(w), Held(w, d) \/ d \in contested' PROVE SettledInv'
  <2>1. \A a \in Assets : SameRow(a)
    BY <1>4 DEF SameRow, rowVars
  <2>2. Undisputed(d)'
    <3>1. CASE Held(w, d)
      BY <1>2, <1>3, <1>4, <2>1, <3>1, Continues DEF SameRow
    <3>2. CASE d \in contested'
      BY <3>2 DEF Undisputed
    <3> QED
      BY <1>4, <3>1, <3>2
  <2>3. keyed' \subseteq stored'
    BY <1>2, <1>4 DEF SettledInv, rowVars
  <2> QED
    BY <1>0, <1>1, <1>2, <1>3, <1>4, <2>1, <2>2, <2>3, SettledAtOne
<1>5. CASE Write(w)
  <2>1. wpc[w] = "write" /\ Held(w, d) /\ contested' = contested
    BY <1>1, <1>5 DEF Write, Held, history
  <2>2. CASE Applies(w) /\ Apply(w) /\ JobDone(w)
    <3>1. wpc'[w] = "idle" /\ \A v \in Workers : v # w => SameJob(v)
      BY <1>0, <2>2, DoneSame
    <3>2. Prepared(w)' /\ \A a \in Assets : ~Held(w, a)'
      BY <3>1 DEF Prepared, Fetched, Deciding, Held
    <3>3. Undisputed(d)'
      BY <1>2, <2>1, <3>1, <3>2, Released
    <3>4. /\ \A a \in Assets : a # d => SameRow(a)
          /\ GoesOn(d) /\ keyed' \subseteq stored' /\ Backed(d)'
      <4>1. d \in contested' \/ (d \notin contested /\ Held(w, d))
        BY <2>1
      <4> QED
        BY <1>1, <1>2, <2>1, <2>2, <4>1, AppliedBacked
    <3> QED
      BY <1>0, <1>1, <1>2, <3>1, <3>2, <3>3, <3>4, SettledAtOne
  <2>3. CASE UNCHANGED rowVars /\ ToRecover(w)
    BY <1>4, <2>1, <2>3
  <2> QED
    BY <1>5, <2>2, <2>3 DEF Write
<1>6. CASE Raise(w)
  <2>1. ToRecover(w)
    BY <1>6 DEF Raise
  <2>2. CASE UNCHANGED rowVars /\ contested' = IF wpc[w] = "load" THEN contested \cup {d} ELSE contested
    <3>1. Held(w, d) \/ d \in contested'
      BY <1>1, <1>6, <2>2 DEF Raise, Held
    <3> QED
      BY <1>4, <2>1, <2>2, <3>1
  <2>3. CASE wpc[w] = "write" /\ Applies(w) /\ Apply(w) /\ contested' = contested \cup {d}
    <3>1. /\ \A a \in Assets : a # d => SameRow(a)
          /\ GoesOn(d) /\ keyed' \subseteq stored' /\ Backed(d)'
      <4>1. d \in contested'
        BY <2>3
      <4> QED
        BY <1>1, <1>2, <2>3, <4>1, AppliedBacked
    <3>2. Undisputed(d)'
      BY <2>3 DEF Undisputed
    <3> QED
      BY <1>0, <1>1, <1>2, <1>3, <2>1, <3>1, <3>2, SettledAtOne
  <2> QED
    BY <1>1, <1>6, <2>2, <2>3 DEF Raise
<1> QED
  BY <1>5, <1>6

\* The except clause reads the row again, which it holds since its job read it.
LEMMA SettledRecover ==
  ASSUME Typed, Typed', SettledInv, NEW w \in Workers, Recover(w)
  PROVE  SettledInv'
<1>0. TypeOK /\ Busy /\ Busy'
  BY DEF Typed
<1>1. PICK d \in Assets : d = doing[w]
  BY <1>0 DEF Recover, Busy
<1>2. /\ wpc[w] = "recover" /\ contested \subseteq contested'
      /\ UNCHANGED <<rowVars, stored, opVars>>
  BY DEF Recover
<1>3. /\ \A a \in Assets : SameRow(a)
      /\ keyed' \subseteq stored' /\ stored \subseteq stored' /\ UNCHANGED <<opc, chosen>>
  BY <1>2 DEF SameRow, SettledInv, rowVars, opVars
<1>4. CASE ~HasRow(d)
  <2>1. JobDone(w)
    BY <1>1, <1>4 DEF Recover
  <2>2. wpc'[w] = "idle" /\ \A v \in Workers : v # w => SameJob(v)
    BY <1>0, <2>1, DoneSame
  <2>3. Prepared(w)' /\ \A a \in Assets : ~Held(w, a)'
    BY <2>2 DEF Prepared, Fetched, Deciding, Held
  <2> QED
    BY <1>0, <1>1, <1>2, <1>3, <2>2, <2>3, SettledAtOne
<1>5. CASE HasRow(d)
  <2>1. wpc' = [wpc EXCEPT ![w] = "blame"] /\ UNCHANGED doing
    BY <1>1, <1>5 DEF Recover
  <2>2. \A v \in Workers : v # w => seen'[v] = seen[v]
    BY <1>0, <1>1, <1>5 DEF Recover, TypeOK
  <2>3. wpc'[w] = "blame" /\ \A v \in Workers : v # w => SameJob(v)
    BY <1>0, <2>1, <2>2 DEF SameJob, TypeOK
  <2>4. Held(w, d) /\ Prepared(w)' /\ ~Deciding(w)' /\ \A a \in Assets : a # d => ~Held(w, a)'
    BY <1>1, <1>2, <2>1, <2>3 DEF Held, Prepared, Fetched, Deciding
  <2>5. Undisputed(d)'
    BY <1>2, <1>3, <2>3, <2>4, Continues DEF SameRow
  <2> QED
    BY <1>0, <1>1, <1>2, <1>3, <2>3, <2>4, <2>5, SettledAtOne
<1> QED
  BY <1>4, <1>5

\* FAILED is committed with its error, or the job ends without it.
LEMMA SettledMark ==
  ASSUME Typed, Typed', SettledInv, NEW w \in Workers, Mark(w) \/ Die(w)
  PROVE  SettledInv'
<1>0. TypeOK /\ Busy /\ Busy'
  BY DEF Typed
<1>1. PICK d \in Assets : d = doing[w]
  BY <1>0 DEF Mark, Die, Busy
<1>2. JobDone(w) /\ UNCHANGED <<stored, contested, opc, chosen>>
  BY DEF Mark, Die, opVars
<1>3. wpc'[w] = "idle" /\ \A v \in Workers : v # w => SameJob(v)
  BY <1>0, <1>2, DoneSame
<1>4. Prepared(w)' /\ \A a \in Assets : ~Held(w, a)'
  BY <1>3 DEF Prepared, Fetched, Deciding, Held
<1>5. CASE UNCHANGED rowVars
  <2>1. \A a \in Assets : SameRow(a)
    BY <1>5 DEF SameRow, rowVars
  <2>2. keyed' \subseteq stored' /\ stored \subseteq stored' /\ contested \subseteq contested'
    BY <1>2, <1>5 DEF SettledInv, rowVars
  <2> QED
    BY <1>0, <1>1, <1>2, <1>3, <1>4, <2>1, <2>2, SettledAtOne
<1>6. CASE Mark(w) /\ Applies(w)
  <2>1. /\ status'[d] = Written(seen[w].status, "failed", status[d])
        /\ meta'[d] = FailedMeta(w) /\ text'[d] = NewText(w) /\ keyed' = keyed
        /\ \A a \in Assets : a # d => SameRow(a)
    BY <1>0, <1>1, <1>6 DEF Mark, TypeOK, SameRow
  <2>2. wpc[w] = "mark" /\ status[d] \in {"pending", "ready", "failed"} /\ Held(w, d)
    BY <1>1, <1>6 DEF Mark, Applies, HasRow, Held
  <2>3. seen[w].write = "failed" /\ (seen[w].text # "none" => text[d] # "none")
    BY <1>1, <2>2 DEF SettledInv, Prepared, Deciding
  <2>4. NewText(w) # "none"
    BY <1>1, <2>3 DEF NewText, Written
  <2>5. GoesOn(d)
    BY <2>1, <2>2, <2>4 DEF GoesOn, Written
  <2>6. Backed(d)'
    <3>1. CASE d \in contested
      BY <1>2, <2>1, <2>4, <3>1 DEF Backed
    <3>2. CASE d \notin contested
      <4>1. status[d] = "pending" /\ seen[w].text = text[d]
        BY <2>2, <3>2 DEF SettledInv, Undisputed, Deciding
      <4>2. status'[d] \in {"pending", "failed"}
        BY <2>1, <4>1 DEF Written
      <4>3. NewText(w) = "failed"
        BY <1>1, <2>3, <4>1 DEF NewText, Written
      <4> QED
        BY <2>1, <4>2, <4>3 DEF Backed, FailedMeta
    <3> QED
      BY <3>1, <3>2
  <2>7. Undisputed(d)'
    BY <1>2, <1>3, <1>4, <2>2, Released
  <2>8. keyed' \subseteq stored' /\ stored \subseteq stored' /\ contested \subseteq contested'
    BY <1>2, <2>1 DEF SettledInv
  <2> QED
    BY <1>0, <1>1, <1>2, <1>3, <1>4, <2>1, <2>5, <2>6, <2>7, <2>8, SettledAtOne
<1> QED
  BY <1>5, <1>6 DEF Mark, Die
\* An operation selects rows that no session holds, or contests them.
LEMMA SettledSelect ==
  ASSUME Typed, Typed', SettledInv, NEW o \in Ops, NEW op \in OpKinds, Select(o, op)
  PROVE  SettledInv'
<1>0. TypeOK /\ Busy'
  BY DEF Typed
<1>1. /\ opc' = [opc EXCEPT ![o] = op] /\ chosen' = [chosen EXCEPT ![o] = Selected(op)]
      /\ contested' = contested \cup {a \in Selected(op) : op # "pending" /\ Holders(a) # {}}
      /\ UNCHANGED <<rowVars, stored, workerVars>>
  BY DEF Select
<1>2. /\ opc'[o] = op /\ chosen'[o] = Selected(op)
      /\ \A p \in Ops : p # o => opc'[p] = opc[p] /\ chosen'[p] = chosen[p]
  BY <1>0, <1>1 DEF TypeOK
<1>3. /\ \A a \in Assets : SameRow(a)
      /\ \A w \in Workers : SameJob(w)
      /\ keyed' \subseteq stored' /\ stored \subseteq stored' /\ contested \subseteq contested'
  BY <1>1 DEF SameRow, SameJob, SettledInv, rowVars, workerVars
<1>4. ASSUME NEW a \in Assets PROVE (SameRow(a) /\ NoneJoins(a)) \/ Undisputed(a)'
  <2>1. \A p \in Ops : p # o => (Owns(p, a)' <=> Owns(p, a))
    BY <1>2 DEF Owns
  <2>2. CASE op = "pending" \/ a \notin Selected(op)
    <3>1. ~Owns(o, a)'
      BY <1>2, <2>2 DEF Owns
    <3> QED
      BY <1>3, <2>1, <3>1 DEF NoneJoins
  <2>3. CASE op \in {"cleanup", "retry"} /\ a \in Selected(op)
    <3>1. SUFFICES ASSUME a \notin contested' PROVE Undisputed(a)'
      BY DEF Undisputed
    <3>2. Holders(a) = {}
      BY <1>1, <2>3, <3>1
    <3>3. \A w \in Workers : ~Held(w, a)'
      BY <1>1, <3>2 DEF Holders, Held, workerVars
    <3>4. \A p \in Ops : Owns(p, a)' => p = o
      BY <2>1, <3>2 DEF Holders, Owns
    <3>5. status[a] = "failed"
      BY <2>3 DEF Selected
    <3>6. status'[a] = "failed"
      BY <1>3, <3>5 DEF SameRow
    <3> QED
      BY <3>3, <3>4, <3>6 DEF Undisputed
  <2> QED
    BY <2>2, <2>3 DEF OpKinds
<1> QED
  BY <1>0, <1>3, <1>4, SettledByParts

\* An operation commits the rows it selected, or none.
LEMMA SettledCommit ==
  ASSUME Typed, Typed', SettledInv, NEW o \in Ops, OpCommit(o) \/ OpFails(o)
  PROVE  SettledInv'
<1>0. TypeOK /\ Busy'
  BY DEF Typed
<1>1. OpDone(o) /\ UNCHANGED <<stored, workerVars, history>>
  BY DEF OpCommit, OpFails
<1>2. /\ \A p \in Ops, a \in Assets : Owns(p, a)' => Owns(p, a) /\ p # o
      /\ \A p \in Ops, a \in Assets : Owns(p, a) /\ p # o => Owns(p, a)'
  BY <1>0, <1>1 DEF OpDone, Owns, TypeOK
<1>3. /\ \A w \in Workers : SameJob(w)
      /\ \A w \in Workers, a \in Assets : (Held(w, a)' <=> Held(w, a)) /\ (Deciding(w)' <=> Deciding(w))
      /\ stored' = stored /\ contested' = contested
  BY <1>1 DEF SameJob, Held, Deciding, workerVars, history
<1>4. \A a \in Assets : NoneJoins(a)
  BY <1>2, <1>3 DEF NoneJoins
<1>5. CASE UNCHANGED rowVars
  <2>1. \A a \in Assets : SameRow(a)
    BY <1>5 DEF SameRow, rowVars
  <2>2. keyed' \subseteq stored'
    BY <1>3, <1>5 DEF SettledInv, rowVars
  <2> QED
    BY <1>0, <1>3, <1>4, <2>1, <2>2, SettledByParts
<1>6. ASSUME opc[o] \in {"cleanup", "retry"}, NEW a \in Assets, a \in chosen[o] PROVE Undisputed(a)'
  <2>1. Owns(o, a) /\ Undisputed(a)
    BY <1>6 DEF Owns, SettledInv
  <2>2. SUFFICES ASSUME a \notin contested PROVE Undisputed(a)'
    BY <1>3 DEF Undisputed
  <2>3. \A w \in Workers : ~Held(w, a)'
    BY <1>3, <2>1, <2>2 DEF Undisputed
  <2>4. \A p \in Ops : ~Owns(p, a)'
    BY <1>2, <2>1, <2>2 DEF Undisputed
  <2> QED
    BY <2>3, <2>4 DEF Undisputed
<1>7. CASE opc[o] = "cleanup" /\ Commit(o)
  <2>1. /\ status' = [a \in Assets |-> IF a \in chosen[o] THEN "gone" ELSE status[a]]
        /\ text' = [a \in Assets |-> IF a \in chosen[o] THEN "none" ELSE text[a]]
        /\ meta' = [a \in Assets |-> IF a \in chosen[o] THEN {} ELSE meta[a]]
        /\ keyed' = keyed \ chosen[o]
    BY <1>7 DEF Commit
  <2>2. meta \in [Assets -> SUBSET Facts] /\ status \in [Assets -> Statuses] /\ text \in [Assets -> Texts]
    BY <1>0 DEF TypeOK
  <2>3. \A a \in Assets : IF a \in chosen[o] THEN status'[a] = "gone" ELSE SameRow(a)
    BY <2>1, <2>2 DEF SameRow
  <2>4. \A a \in Assets : SameRow(a) \/ (GoesOn(a) /\ Backed(a)')
    BY <2>3 DEF GoesOn, Backed
  <2>5. \A a \in Assets : (SameRow(a) /\ NoneJoins(a)) \/ Undisputed(a)'
    BY <1>4, <1>6, <1>7, <2>3
  <2>6. keyed' \subseteq stored' /\ stored \subseteq stored' /\ contested \subseteq contested'
    BY <1>3, <2>1 DEF SettledInv
  <2> QED
    BY <1>0, <1>3, <2>4, <2>5, <2>6, SettledByParts
<1>8. CASE opc[o] = "retry" /\ Commit(o) /\ \A a \in chosen[o] : HasRow(a)
  <2>1. /\ status' = [a \in Assets |-> IF a \in chosen[o] THEN "pending" ELSE status[a]]
        /\ \A a \in Assets : a \notin chosen[o] => meta'[a] = meta[a]
        /\ UNCHANGED <<text, keyed>>
    BY <1>8 DEF Commit
  <2>2. \A a \in Assets : IF a \in chosen[o] THEN status'[a] = "pending" ELSE SameRow(a)
    BY <2>1 DEF SameRow
  <2>3. \A a \in Assets : SameRow(a) \/ (GoesOn(a) /\ Backed(a)')
    BY <1>8, <2>1, <2>2 DEF GoesOn, Backed, HasRow
  <2>4. \A a \in Assets : (SameRow(a) /\ NoneJoins(a)) \/ Undisputed(a)'
    BY <1>4, <1>6, <1>8, <2>2
  <2>5. keyed' \subseteq stored' /\ stored \subseteq stored' /\ contested \subseteq contested'
    BY <1>3, <2>1 DEF SettledInv
  <2> QED
    BY <1>0, <1>3, <2>3, <2>4, <2>5, SettledByParts
<1>9. \/ UNCHANGED rowVars
      \/ opc[o] = "cleanup" /\ Commit(o)
      \/ opc[o] = "retry" /\ Commit(o) /\ \A a \in chosen[o] : HasRow(a)
  <2>1. opc[o] \in {"idle", "cleanup", "pending", "retry"}
    BY <1>0 DEF TypeOK
  <2>2. opc[o] = "pending" /\ Commit(o) => UNCHANGED rowVars
    BY DEF Commit
  <2> QED
    BY <2>1, <2>2 DEF OpCommit, OpFails
<1> QED
  BY <1>5, <1>7, <1>8, <1>9

LEMMA SettledStep == Typed /\ Typed' /\ SettledInv /\ [Next]_vars => SettledInv'
<1> SUFFICES ASSUME Typed, Typed', SettledInv, [Next]_vars PROVE SettledInv'
  OBVIOUS
<1>0. TypeOK /\ Busy /\ Busy'
  BY DEF Typed
<1>1. ASSUME UNCHANGED <<rowVars, stored, workerVars, opc, chosen, contested>> PROVE SettledInv'
  <2>1. \A a \in Assets : SameRow(a)
    BY <1>1 DEF SameRow, rowVars
  <2>2. (\A w \in Workers : SameJob(w)) /\ \A a \in Assets : NoneJoins(a)
    BY <1>1 DEF SameJob, NoneJoins, Owns, workerVars
  <2>3. keyed' \subseteq stored' /\ stored \subseteq stored' /\ contested \subseteq contested'
    BY <1>1 DEF SettledInv, rowVars
  <2> QED
    BY <1>0, <2>1, <2>2, <2>3, SettledByParts
<1>2. ASSUME NEW a \in Assets, Persist(a) PROVE SettledInv'
  <2>1. /\ status[a] = "absent" /\ status'[a] = "pending" /\ text' = text
        /\ UNCHANGED <<keyed, stored, workerVars, opc, chosen, contested>>
        /\ \A b \in Assets : b # a => SameRow(b)
    BY <1>0, <1>2 DEF Persist, TypeOK, SameRow, opVars, history
  <2>2. (\A w \in Workers : SameJob(w)) /\ \A b \in Assets : NoneJoins(b)
    BY <2>1 DEF SameJob, NoneJoins, Owns, workerVars
  <2>3. GoesOn(a) /\ Backed(a)'
    BY <2>1 DEF GoesOn, Backed
  <2>4. Undisputed(a)'
    <3>1. \A w \in Workers : Held(w, a)' => Held(w, a)
      BY <2>1 DEF Held, workerVars
    <3>2. \A o \in Ops : Owns(o, a)' => Owns(o, a)
      BY <2>2 DEF NoneJoins
    <3>3. Undisputed(a)
      BY DEF SettledInv
    <3>4. a \notin contested => (\A w \in Workers : ~Held(w, a)') /\ \A o \in Ops : ~Owns(o, a)'
      BY <2>1, <3>1, <3>2, <3>3 DEF Undisputed
    <3> QED
      BY <2>1, <3>4 DEF Undisputed
  <2>5. keyed' \subseteq stored' /\ stored \subseteq stored' /\ contested \subseteq contested'
    BY <2>1 DEF SettledInv
  <2> QED
    BY <1>0, <2>1, <2>2, <2>3, <2>4, <2>5, SettledByParts
<1>3. ASSUME NEW a \in Assets, Announce(a) \/ AnnounceLost(a) PROVE SettledInv'
  BY <1>1, <1>3 DEF Announce, AnnounceLost, opVars, history
<1>4. ASSUME NEW w \in Workers, NEW a \in Assets, Start(w, a) PROVE SettledInv'
  <2>1. /\ wpc'[w] = "load" /\ \A v \in Workers : v # w => SameJob(v)
        /\ UNCHANGED <<rowVars, stored, opc, chosen, contested>>
    BY <1>0, <1>4 DEF Start, TypeOK, SameJob, opVars, history
  <2>2. Prepared(w)' /\ \A b \in Assets : ~Held(w, b)'
    BY <2>1 DEF Prepared, Fetched, Deciding, Held
  <2>3. \A b \in Assets : SameRow(b)
    BY <2>1 DEF SameRow, rowVars
  <2>4. keyed' \subseteq stored' /\ stored \subseteq stored' /\ contested \subseteq contested'
    BY <2>1 DEF SettledInv, rowVars
  <2> QED
    BY <1>0, <2>1, <2>2, <2>3, <2>4, SettledAtOne
<1>5. ASSUME NEW o \in Ops, NEW a \in Assets, EnqueueNext(o, a) PROVE SettledInv'
  BY <1>1, <1>5 DEF EnqueueNext, history
<1>6. CASE UNCHANGED vars
  BY <1>1, <1>6 DEF vars, opVars, history
<1> QED
  BY <1>2, <1>3, <1>4, <1>5, <1>6, SettledLoad, SettledWork, SettledWrite, SettledRecover,
     SettledMark, SettledSelect, SettledCommit DEF Next, WorkerStep, OpStep

LEMMA SettledInit == Init => SettledInv
BY DEF Init, SettledInv, Backed, Undisputed, Prepared, Fetched, Deciding, Held, Owns

\* A settled asset has a transcript, its key names a stored object, and unless sessions
\* collided on it READY is backed by an object or a preview and FAILED by its error, for
\* any number of assets, workers and operations.
THEOREM SettledAssetsAreBacked == Spec => []SettledIsBacked
<1>1. SettledInv => SettledIsBacked
  BY DEF SettledInv, SettledIsBacked, Backed
<1> QED
  BY <1>1, SettledInit, TypeInit, TypeStep, SettledStep, PTL DEF Spec

LEMMA ReadyStep ==
  ASSUME Typed, SettledInv, [Next]_vars, NEW a \in Assets, status[a] = "ready", status'[a] # "ready"
  PROVE  a \in contested'
<1>0. TypeOK /\ Busy
  BY DEF Typed
<1>1. SUFFICES ASSUME a \notin contested' PROVE FALSE
  OBVIOUS
<1>2. ASSUME contested \subseteq contested'
      PROVE  (\A w \in Workers : ~Held(w, a)) /\ \A o \in Ops : ~Owns(o, a)
  BY <1>1, <1>2 DEF SettledInv, Undisputed
<1>3. ASSUME NEW b \in Assets, Persist(b) PROVE FALSE
  BY <1>0, <1>3 DEF Persist, TypeOK
<1>4. ASSUME NEW w \in Workers, Write(w) \/ Raise(w) PROVE FALSE
  <2>1. wpc[w] = "write" /\ Apply(w)
    BY <1>4 DEF Write, Raise, rowVars
  <2>2. doing[w] = a
    BY <1>0, <2>1 DEF Apply, TypeOK
  <2>3. Held(w, a) /\ contested \subseteq contested'
    BY <1>4, <2>1, <2>2 DEF Held, Write, Raise, history
  <2> QED
    BY <1>2, <2>3
<1>5. ASSUME NEW w \in Workers, Mark(w) PROVE FALSE
  <2>1. /\ wpc[w] = "mark" /\ contested' = contested
        /\ status' = [status EXCEPT ![doing[w]] = Written(seen[w].status, "failed", @)]
    BY <1>5 DEF Mark, rowVars
  <2>2. doing[w] = a
    BY <1>0, <2>1 DEF TypeOK
  <2> QED
    BY <1>2, <2>1, <2>2 DEF Held
<1>6. ASSUME NEW o \in Ops, OpCommit(o) PROVE FALSE
  <2>1. opc[o] \in {"cleanup", "retry"} /\ Commit(o) /\ contested' = contested
    BY <1>6 DEF OpCommit, Commit, rowVars, history
  <2>2. a \in chosen[o]
    BY <2>1 DEF Commit
  <2> QED
    BY <1>2, <2>1, <2>2 DEF Owns
<1>7. status' # status
  OBVIOUS
<1> QED
  BY <1>3, <1>4, <1>5, <1>6, <1>7
     DEF Next, WorkerStep, OpStep, vars, rowVars, Announce, AnnounceLost, Start, Load, Fetch, Extract,
         Recover, Blame, Die, EnqueueNext, OpFails, Select

\* A READY asset stays READY unless two sessions held its row at once or an error hid what
\* had been committed: no job, retry or cleanup of its own undoes it.
THEOREM ReadyAssetsAreFinal == Spec => ReadyIsFinal
<1>1. Typed /\ SettledInv /\ [Next]_vars =>
        [\A a \in Assets : status[a] = "ready" /\ status'[a] # "ready" => a \in contested']_vars
  BY ReadyStep
<1> QED
  BY <1>1, SettledInit, TypeInit, TypeStep, SettledStep, PTL DEF Spec, ReadyIsFinal
=============================================================================
