--------------------------- MODULE RendezvousProofs ---------------------------
(***************************************************************************)
(* Proofs about Rendezvous, for every set of clients, codes and addresses, *)
(* every limit and every assignment of codes, collisions included: type    *)
(* correctness; a blob that can be picked up has an open rendezvous; the   *)
(* wasm handle is freed once; a note ends up only with the recipient it    *)
(* was encrypted to; a blob is handed out once; the mint limit holds in    *)
(* every window.                                                           *)
(***************************************************************************)
EXTENDS Rendezvous, FiniteSetTheorems, TLAPS

CallRecord ==
  [op: {"none", "mint", "download", "fetch", "upload"},
   stage: {"none", "sent", "held", "answered"},
   status: Statuses, key: Keys, note: Notes, expires: Nat]

Ops == {"none", "mint", "download", "fetch", "upload"}
CallTable == [Clients -> CallRecord]

LEMMA CallTypeIs == CallType <=> call \in CallTable
BY DEF CallType, CallTable, CallRecord

-----------------------------------------------------------------------------
(* Calls and sweeps are well typed.                                        *)

LEMMA CallFacts ==
  ASSUME TypeOK, NEW x \in Clients
  PROVE  /\ \A op \in Ops : [call EXCEPT ![x] = Ask(op)] \in CallTable
         /\ \A st \in Statuses : Fail(x, st) \in CallTable
         /\ \A e \in Nat : Hold(x, e) \in CallTable
         /\ \A k \in Keys, n \in Notes, e \in Nat : Answer(x, k, n, e) \in CallTable
<1>2. call \in CallTable
  BY CallTypeIs DEF TypeOK
<1>3. ASSUME NEW op \in Ops
      PROVE  [call EXCEPT ![x] = Ask(op)] \in CallTable
  <2>1. Ask(op) \in CallRecord
    BY DEF Ask, NoCall, Ops, CallRecord, Statuses, Keys, Notes
  <2>. QED BY <1>2, <2>1 DEF CallTable
<1>4. ASSUME NEW st \in Statuses PROVE Fail(x, st) \in CallTable
  <2>1. [call[x] EXCEPT !.stage = "answered", !.status = st] \in CallRecord
    BY <1>2 DEF CallTable, CallRecord
  <2>. QED BY <1>2, <2>1 DEF Fail, CallTable
<1>5. ASSUME NEW e \in Nat PROVE Hold(x, e) \in CallTable
  <2>1. [call[x] EXCEPT !.stage = "held", !.expires = e] \in CallRecord
    BY <1>2 DEF CallTable, CallRecord
  <2>. QED BY <1>2, <2>1 DEF Hold, CallTable
<1>6. ASSUME NEW k \in Keys, NEW n \in Notes, NEW e \in Nat
      PROVE  Answer(x, k, n, e) \in CallTable
  <2>1. [call[x] EXCEPT !.stage = "answered", !.status = "ok",
                        !.key = k, !.note = n, !.expires = e] \in CallRecord
    BY <1>2 DEF Statuses, CallTable, CallRecord
  <2>. QED BY <1>2, <2>1 DEF Answer, CallTable
<1>. QED BY <1>3, <1>4, <1>5, <1>6

LEMMA NewCallType == call' \in CallTable => CallType'
BY DEF CallType, CallTable, CallRecord

LEMMA SweptType ==
  ASSUME StoreType
  PROVE  /\ Records \in [Codes -> [key: Keys, expires: Nat]]
         /\ Blobs \in [Codes -> [key: Keys, note: Notes, expires: Nat]]
         /\ Counters \in [Ips -> [count: Nat, expires: Nat]]
<1>1. Absent \in [key: Keys, expires: Nat]
  BY DEF Absent, Keys
<1>2. NoBlob \in [key: Keys, note: Notes, expires: Nat]
  BY DEF NoBlob, Keys, Notes
<1>3. NoCount \in [count: Nat, expires: Nat]
  BY DEF NoCount
<1>. QED BY <1>1, <1>2, <1>3 DEF StoreType, Records, Blobs, Counters, Retain

LEMMA StatusType == \A rec : Status(rec) \in Statuses
BY DEF Status, Statuses
-----------------------------------------------------------------------------
(* Type correctness, action by action.                                     *)

LEMMA UnchangedTypes ==
  ASSUME TypeOK
  PROVE  /\ UNCHANGED store => StoreType'
         /\ UNCHANGED call => CallType'
         /\ UNCHANGED recipientVars => RecipientType'
         /\ UNCHANGED senderVars => SenderType'
         /\ UNCHANGED <<admitted, blobHistory>> => HistoryType'
BY DEF TypeOK, store, recipientVars, senderVars, blobHistory,
       StoreType, CallType, RecipientType, SenderType, HistoryType

LEMMA ClientIs ==
  /\ \A r \in Recipients : r \in Clients /\ r \in Keys /\ CodeOf[r] \in Codes /\ IpOf[r] \in Ips
  /\ \A s \in Senders : s \in Clients /\ s \in Notes
  /\ NoKey \in Keys /\ NoNote \in Notes
BY ClientsAssumption DEF Clients, Keys, Notes

LEMMA CountMintType ==
  ASSUME TypeOK, NEW r \in Recipients, CountMint(r)
  PROVE  TypeOK'
<1>. DEFINE ip == IpOf[r]
            n == Counters[ip].count + 1
            hit == [by |-> r, ip |-> ip, at |-> now]
<1>1. StoreType'
  <2>1. n \in Nat /\ now + TTL \in Nat /\ ip \in Ips
    BY SweptType, ClientIs, LimitsAssumption DEF TypeOK
  <2>2. counters' = [Counters EXCEPT ![ip] = [count |-> n, expires |-> now + TTL]]
        /\ records' = Records /\ blobs' = Blobs
    BY DEF CountMint
  <2>. HIDE DEF n, ip
  <2>3. counters' \in [Ips -> [count: Nat, expires: Nat]]
    BY <2>1, <2>2, SweptType DEF TypeOK
  <2>. QED BY <2>2, <2>3, SweptType DEF TypeOK, StoreType
<1>2. CallType'
  <2>1. call' = Hold(r, 0) \/ call' = Fail(r, "limited")
    BY DEF CountMint
  <2>2. Hold(r, 0) \in CallTable /\ Fail(r, "limited") \in CallTable
    BY CallFacts, ClientIs DEF Statuses
  <2>. QED BY <2>1, <2>2, NewCallType
<1>3. RecipientType' /\ SenderType'
  BY UnchangedTypes DEF TypeOK, CountMint
<1>4. HistoryType'
  <2>1. hit \in [by: Recipients, ip: Ips, at: Nat]
    BY ClientIs DEF TypeOK
  <2>2. /\ admitted' \subseteq admitted \cup {hit}
        /\ UNCHANGED blobHistory
    BY DEF CountMint
  <2>. HIDE DEF hit
  <2>. QED BY <2>1, <2>2 DEF TypeOK, HistoryType, blobHistory
<1>. QED BY <1>1, <1>2, <1>3, <1>4 DEF TypeOK, CountMint

LEMMA PutMintType ==
  ASSUME TypeOK, NEW r \in Recipients, PutMint(r)
  PROVE  TypeOK'
<1>0. now + TTL \in Nat /\ r \in Keys /\ r \in Clients /\ NoKey \in Keys /\ NoNote \in Notes
  BY ClientIs, LimitsAssumption DEF TypeOK
<1>1. StoreType'
  <2>. DEFINE fresh == [key |-> r, expires |-> now + TTL]
  <2>1. fresh \in [key: Keys, expires: Nat]
    BY <1>0
  <2>2. /\ records' = Records \/ records' = [Records EXCEPT ![CodeOf[r]] = fresh]
        /\ blobs' = Blobs /\ counters' = Counters
    BY DEF PutMint
  <2>. HIDE DEF fresh
  <2>3. StoreType
    BY DEF TypeOK
  <2>. QED BY <2>1, <2>2, <2>3, SweptType DEF StoreType
<1>2. CallType'
  <2>1. call' = Fail(r, "conflict") \/ call' = Answer(r, NoKey, NoNote, now + TTL)
    BY DEF PutMint
  <2>2. Fail(r, "conflict") \in CallTable /\ Answer(r, NoKey, NoNote, now + TTL) \in CallTable
    BY <1>0, CallFacts DEF Statuses
  <2>. QED BY <2>1, <2>2, NewCallType
<1>3. RecipientType' /\ SenderType' /\ HistoryType'
  BY UnchangedTypes DEF TypeOK, PutMint
<1>. QED BY <1>1, <1>2, <1>3 DEF TypeOK, PutMint

LEMMA FetchType ==
  ASSUME TypeOK, NEW s \in Senders, Fetch(s)
  PROVE  TypeOK'
<1>1. records[typed[s]].key \in Keys /\ s \in Clients /\ NoNote \in Notes
  BY ClientIs DEF TypeOK, StoreType, SenderType
<1>2. CallType'
  <2>. DEFINE rec == records[typed[s]]
  <2>1. call' = Fail(s, Status(rec)) \/ call' = Answer(s, rec.key, NoNote, 0)
    BY DEF Fetch
  <2>2. Fail(s, Status(rec)) \in CallTable /\ Answer(s, rec.key, NoNote, 0) \in CallTable
    BY <1>1, CallFacts, StatusType
  <2>. QED BY <2>1, <2>2, NewCallType
<1>3. StoreType' /\ RecipientType' /\ SenderType' /\ HistoryType'
  BY UnchangedTypes DEF TypeOK, Fetch
<1>. QED BY <1>2, <1>3 DEF TypeOK, Fetch

LEMMA CheckUploadType ==
  ASSUME TypeOK, NEW s \in Senders, CheckUpload(s)
  PROVE  TypeOK'
<1>1. BlobExpiry(records[typed[s]]) \in Nat /\ s \in Clients
  BY ClientIs DEF TypeOK, StoreType, SenderType, BlobExpiry, Larger
<1>2. CallType'
  <2>. DEFINE rec == records[typed[s]]
  <2>1. \/ call' = Fail(s, Status(rec)) \/ call' = Fail(s, "tooLarge")
        \/ call' = Hold(s, BlobExpiry(rec))
    BY DEF CheckUpload
  <2>2. /\ Fail(s, Status(rec)) \in CallTable /\ Fail(s, "tooLarge") \in CallTable
        /\ Hold(s, BlobExpiry(rec)) \in CallTable
    BY <1>1, CallFacts, StatusType DEF Statuses
  <2>. QED BY <2>1, <2>2, NewCallType
<1>3. StoreType' /\ RecipientType' /\ SenderType' /\ HistoryType'
  BY UnchangedTypes DEF TypeOK, CheckUpload
<1>. QED BY <1>2, <1>3 DEF TypeOK, CheckUpload

LEMMA PutBlobType ==
  ASSUME TypeOK, NEW s \in Senders, PutBlob(s)
  PROVE  TypeOK'
<1>0. s \in Clients /\ s \in Notes /\ NoKey \in Keys /\ NoNote \in Notes
  BY ClientIs
<1>1. StoreType'
  <2>1. [key |-> sealedFor[s], note |-> s, expires |-> call[s].expires]
          \in [key: Keys, note: Notes, expires: Nat]
    BY <1>0 DEF TypeOK, SenderType, CallType
  <2>. QED BY <2>1, SweptType DEF TypeOK, StoreType, PutBlob
<1>2. CallType'
  <2>1. call' = Fail(s, "conflict") \/ call' = Answer(s, NoKey, NoNote, 0)
    BY DEF PutBlob
  <2>2. Fail(s, "conflict") \in CallTable /\ Answer(s, NoKey, NoNote, 0) \in CallTable
    BY <1>0, CallFacts DEF Statuses
  <2>. QED BY <2>1, <2>2, NewCallType
<1>3. RecipientType' /\ SenderType'
  BY UnchangedTypes DEF TypeOK, PutBlob
<1>4. HistoryType'
  BY DEF TypeOK, HistoryType, PutBlob
<1>. QED BY <1>1, <1>2, <1>3, <1>4 DEF TypeOK, PutBlob

LEMMA DownloadType ==
  ASSUME TypeOK, NEW r \in Recipients, Download(r)
  PROVE  TypeOK'
<1>0. /\ CodeOf[r] \in Codes /\ r \in Clients
      /\ blobs[CodeOf[r]] \in [key: Keys, note: Notes, expires: Nat]
      /\ NoBlob \in [key: Keys, note: Notes, expires: Nat]
  BY ClientIs DEF TypeOK, StoreType, NoBlob
<1>1. StoreType'
  BY <1>0 DEF TypeOK, StoreType, Download, AfterTake
<1>2. CallType'
  <2>. DEFINE b == blobs[CodeOf[r]]
  <2>1. call' = Fail(r, "notFound") \/ call' = Answer(r, b.key, b.note, 0)
    BY DEF Download
  <2>2. Fail(r, "notFound") \in CallTable /\ Answer(r, b.key, b.note, 0) \in CallTable
    BY <1>0, CallFacts DEF Statuses
  <2>. QED BY <2>1, <2>2, NewCallType
<1>3. RecipientType' /\ SenderType'
  BY UnchangedTypes DEF TypeOK, Download
<1>4. HistoryType'
  BY DEF TypeOK, HistoryType, Download
<1>. QED BY <1>1, <1>2, <1>3, <1>4 DEF TypeOK, Download
LEMMA RestartType ==
  ASSUME TypeOK, Restart
  PROVE  TypeOK'
<1>1. StoreType'
  BY DEF Restart, StoreType, Absent, NoBlob, NoCount, Keys, Notes
<1>2. CallType'
  <2>1. call \in CallTable
    BY CallTypeIs DEF TypeOK
  <2>2. NoCall \in CallRecord
    BY DEF NoCall, CallRecord, Statuses, Keys, Notes
  <2>3. call' \in CallTable
    BY <2>1, <2>2 DEF Restart, CallTable
  <2>. QED BY <2>3, NewCallType
<1>3. RecipientType' /\ SenderType'
  BY UnchangedTypes DEF TypeOK, Restart
<1>4. HistoryType'
  BY DEF TypeOK, HistoryType, Restart, blobHistory
<1>. QED BY <1>1, <1>2, <1>3, <1>4 DEF TypeOK, Restart

LEMMA TickType ==
  ASSUME TypeOK, Tick
  PROVE  TypeOK'
<1>1. StoreType' /\ CallType' /\ RecipientType' /\ SenderType' /\ HistoryType'
  BY UnchangedTypes DEF Tick
<1>. QED BY <1>1 DEF TypeOK, Tick

\* A client that asks something new, or leaves its call alone.
LEMMA AskType ==
  ASSUME TypeOK, NEW x \in Clients,
         UNCHANGED call \/ \E op \in Ops : call' = [call EXCEPT ![x] = Ask(op)]
  PROVE  CallType'
BY CallFacts, NewCallType, UnchangedTypes

LEMMA OpenDialogType ==
  ASSUME TypeOK, NEW r \in Recipients, OpenDialog(r)
  PROVE  TypeOK'
<1>1. CallType'
  BY AskType, ClientIs DEF OpenDialog, Ops
<1>2. RecipientType'
  BY DEF TypeOK, RecipientType, OpenDialog
<1>3. StoreType' /\ SenderType' /\ HistoryType'
  BY UnchangedTypes DEF OpenDialog
<1>. QED BY <1>1, <1>2, <1>3 DEF TypeOK, OpenDialog

LEMMA MintAnsweredType ==
  ASSUME TypeOK, NEW r \in Recipients, MintAnswered(r)
  PROVE  TypeOK'
<1>1. CallType'
  BY AskType, ClientIs DEF MintAnswered, Ops
<1>2. RecipientType'
  <2>1. Smaller(now + Ahead + TTL, call[r].expires) \in Nat
    BY LimitsAssumption, ClientIs DEF TypeOK, CallType, Smaller
  <2>. QED BY <2>1 DEF TypeOK, RecipientType, MintAnswered, GiveUp, Outcome, Free, Ended
<1>3. StoreType' /\ SenderType' /\ HistoryType'
  BY UnchangedTypes DEF MintAnswered
<1>. QED BY <1>1, <1>2, <1>3 DEF TypeOK, MintAnswered

LEMMA RecipientStepsType ==
  ASSUME TypeOK, NEW r \in Recipients,
         PollAnswered(r) \/ Wake(r) \/ ReceiveLost(r) \/ CloseDialog(r) \/ Save(r)
  PROVE  TypeOK'
<1>1. CallType'
  BY AskType, ClientIs DEF PollAnswered, Wake, ReceiveLost, CloseDialog, Save, Ops
<1>2. RecipientType'
  <2>1. CASE PollAnswered(r)
    BY <2>1 DEF TypeOK, RecipientType, PollAnswered, GiveUp, Outcome, Free, Ended
  <2>2. CASE Wake(r)
    BY <2>2 DEF TypeOK, RecipientType, Wake, GiveUp, Outcome, Free, Ended
  <2>3. CASE ReceiveLost(r)
    BY <2>3 DEF TypeOK, RecipientType, ReceiveLost, GiveUp, Outcome, Free, Ended
  <2>4. CASE CloseDialog(r)
    BY <2>4 DEF TypeOK, RecipientType, CloseDialog, Free, Ended
  <2>5. CASE Save(r)
    <3>1. call[r].note \in Notes
      BY ClientIs DEF TypeOK, CallType
    <3>. QED BY <2>5, <3>1 DEF TypeOK, RecipientType, Save, Outcome, Ended
  <2>. QED BY <2>1, <2>2, <2>3, <2>4, <2>5
<1>3. StoreType' /\ SenderType' /\ HistoryType'
  BY UnchangedTypes DEF PollAnswered, Wake, ReceiveLost, CloseDialog, Save
<1>. QED BY <1>1, <1>2, <1>3 DEF TypeOK, PollAnswered, Wake, ReceiveLost, CloseDialog, Save

LEMMA SenderStepsType ==
  ASSUME TypeOK, NEW s \in Senders,
         Submit(s) \/ FetchAnswered(s) \/ UploadAnswered(s) \/ SendLost(s)
  PROVE  TypeOK'
<1>1. CallType'
  BY AskType, ClientIs DEF Submit, FetchAnswered, UploadAnswered, SendLost, Ops
<1>2. SenderType'
  <2>1. call[s].key \in Keys
    BY ClientIs DEF TypeOK, CallType
  <2>. QED BY <2>1 DEF TypeOK, SenderType, Submit, FetchAnswered, UploadAnswered, SendLost
<1>3. StoreType' /\ RecipientType' /\ HistoryType'
  BY UnchangedTypes DEF Submit, FetchAnswered, UploadAnswered, SendLost
<1>. QED BY <1>1, <1>2, <1>3 DEF TypeOK, Submit, FetchAnswered, UploadAnswered, SendLost

\* The backend and its clients keep every variable in its type for any
\* clients, codes, limits and restarts.
THEOREM TypeCorrect == Spec => []TypeOK
<1>1. Init => TypeOK
  BY DEF Init, TypeOK, StoreType, CallType, RecipientType, SenderType, HistoryType,
         Absent, NoBlob, NoCount, NoCall, Keys, Notes, Statuses
<1>2. TypeOK /\ [Next]_vars => TypeOK'
  <2>1. ASSUME TypeOK, UNCHANGED vars PROVE TypeOK'
    BY <2>1, UnchangedTypes DEF TypeOK, vars
  <2>2. ASSUME TypeOK, Next PROVE TypeOK'
    BY <2>2, CountMintType, PutMintType, FetchType, CheckUploadType, PutBlobType,
       DownloadType, RestartType, TickType, OpenDialogType, MintAnsweredType,
       RecipientStepsType, SenderStepsType
    DEF Next, ServeRecipient, ServeSender, RecipientStep, SenderStep
  <2>. QED BY <2>1, <2>2
<1>. QED BY <1>1, <1>2, PTL DEF Spec

-----------------------------------------------------------------------------
(* Between its two critical sections an upload holds an expiry that is     *)
(* either over or still that of the record it was read from: this is what  *)
(* makes BlobWithRendezvous inductive.                                     *)

HeldInTime ==
  \A s \in Senders :
    Waits(s, "upload", "held") /\ call[s].expires > now =>
      records[typed[s]].expires = call[s].expires

BlobInv == TypeOK /\ BlobWithRendezvous /\ HeldInTime

LEMMA Swept ==
  ASSUME TypeOK, NEW c \in Codes
  PROVE  /\ Records[c].expires = IF records[c].expires > now THEN records[c].expires ELSE 0
         /\ Blobs[c].expires = IF blobs[c].expires > now THEN blobs[c].expires ELSE 0
         /\ records[c].expires \in Nat /\ blobs[c].expires \in Nat /\ now \in Nat
BY DEF TypeOK, StoreType, Records, Blobs, Retain, Absent, NoBlob

\* What a sweep leaves satisfies the invariant as it stood.
LEMMA SweepKeeps ==
  ASSUME BlobInv, records' = Records, blobs' = Blobs, now' = now
  PROVE  BlobWithRendezvous'
BY Swept DEF BlobInv, BlobWithRendezvous

\* The held uploads after a step that leaves typed and now alone, holds no
\* upload that was not held before, and keeps the records that have not
\* expired.
LEMMA HeldKept ==
  ASSUME BlobInv, now' = now, typed' = typed,
         \A s \in Senders : Waits(s, "upload", "held")' =>
            Waits(s, "upload", "held") /\ call'[s].expires = call[s].expires,
         \A c \in Codes : records[c].expires > now => records'[c].expires = records[c].expires
  PROVE  HeldInTime'
<1>. SUFFICES ASSUME NEW s \in Senders, Waits(s, "upload", "held")', call'[s].expires > now'
              PROVE  records'[typed'[s]].expires = call'[s].expires
  BY DEF HeldInTime
<1>1. Waits(s, "upload", "held") /\ call'[s].expires = call[s].expires /\ call[s].expires > now
  OBVIOUS
<1>2. records[typed[s]].expires = call[s].expires /\ typed[s] \in Codes
  BY <1>1 DEF BlobInv, HeldInTime, TypeOK, SenderType
<1>. QED BY <1>1, <1>2

LEMMA Others ==
  ASSUME TypeOK, NEW x \in Clients, NEW y \in Clients, NEW st, NEW e, NEW k, NEW n
  PROVE  /\ y # x => Fail(x, st)[y] = call[y] /\ Hold(x, e)[y] = call[y]
                     /\ Answer(x, k, n, e)[y] = call[y]
         /\ Fail(x, st)[x].stage = "answered" /\ Answer(x, k, n, e)[x].stage = "answered"
         /\ Hold(x, e)[x].stage = "held" /\ Hold(x, e)[x].expires = e
         /\ Hold(x, e)[x].op = call[x].op
<1>1. call \in CallTable
  BY CallTypeIs DEF TypeOK
<1>. QED BY <1>1 DEF CallTable, CallRecord, Fail, Hold, Answer

LEMMA CountMintBlob ==
  ASSUME BlobInv, NEW r \in Recipients, CountMint(r)
  PROVE  BlobWithRendezvous' /\ HeldInTime'
<1>1. BlobWithRendezvous'
  BY SweepKeeps DEF CountMint
<1>2. \A s \in Senders : call'[s] = call[s]
  <2>1. call' = Hold(r, 0) \/ call' = Fail(r, "limited")
    BY DEF CountMint
  <2>. QED BY <2>1, Others, ClientIs, ClientsAssumption DEF BlobInv
<1>3. HeldInTime'
  BY <1>2, HeldKept, Swept DEF CountMint, Waits, senderVars, BlobInv
<1>. QED BY <1>1, <1>3

LEMMA PutMintBlob ==
  ASSUME BlobInv, NEW r \in Recipients, PutMint(r)
  PROVE  BlobWithRendezvous' /\ HeldInTime'
<1>1. \A s \in Senders : call'[s] = call[s]
  <2>1. call' = Fail(r, "conflict") \/ call' = Answer(r, NoKey, NoNote, now + TTL)
    BY DEF PutMint
  <2>. QED BY <2>1, Others, ClientIs, ClientsAssumption DEF BlobInv
<1>2. \A c \in Codes : records[c].expires > now => records'[c] = Records[c]
  <2>1. CodeOf[r] \in Codes /\ Records \in [Codes -> [key: Keys, expires: Nat]]
    BY ClientIs, SweptType DEF BlobInv, TypeOK
  <2>2. records' = Records \/
          (Records[CodeOf[r]].expires = 0 /\
           records' = [Records EXCEPT ![CodeOf[r]] = [key |-> r, expires |-> now + TTL]])
    BY DEF PutMint
  <2>. QED BY <2>1, <2>2, Swept DEF BlobInv
<1>3. now' = now /\ typed' = typed /\ blobs' = Blobs
  BY DEF PutMint, senderVars
<1>4. \A c \in Codes : records[c].expires > now => records'[c].expires = records[c].expires
  BY <1>2, Swept DEF BlobInv
<1>5. HeldInTime'
  BY <1>1, <1>3, <1>4, HeldKept DEF Waits
<1>6. BlobWithRendezvous'
  BY <1>3, <1>4, Swept DEF BlobInv, BlobWithRendezvous
<1>. QED BY <1>5, <1>6
\* The upload that has just been checked holds the expiry of its record: the
\* clamp to one second from now changes nothing.
LEMMA CheckUploadBlob ==
  ASSUME BlobInv, NEW s \in Senders, CheckUpload(s)
  PROVE  BlobWithRendezvous' /\ HeldInTime'
<1>. DEFINE rec == records[typed[s]]
<1>0. /\ UNCHANGED <<records, blobs, now, typed>>
      /\ \/ call' = Fail(s, Status(rec))
         \/ call' = Fail(s, "tooLarge")
         \/ Status(rec) = "ok" /\ call' = Hold(s, BlobExpiry(rec))
  BY DEF CheckUpload, store, senderVars
<1>1. BlobWithRendezvous'
  BY <1>0 DEF BlobInv, BlobWithRendezvous
<1>2. typed[s] \in Codes /\ rec.expires \in Nat /\ now \in Nat
  BY DEF BlobInv, TypeOK, SenderType, StoreType
<1>3. Status(rec) = "ok" => BlobExpiry(rec) = rec.expires
  BY <1>2 DEF Status, BlobExpiry, Larger
<1>4. ASSUME NEW u \in Senders, Waits(u, "upload", "held")', call'[u].expires > now'
      PROVE  records'[typed'[u]].expires = call'[u].expires
  <2>1. CASE u # s
    <3>1. call'[u] = call[u]
      BY <1>0, <2>1, Others, ClientIs DEF BlobInv
    <3>. QED BY <1>0, <1>4, <3>1 DEF BlobInv, HeldInTime, Waits
  <2>2. CASE u = s
    <3>1. call' = Hold(s, BlobExpiry(rec)) /\ Status(rec) = "ok"
      BY <1>0, <1>4, <2>2, Others, ClientIs DEF BlobInv, Waits
    <3>2. call'[s].expires = BlobExpiry(rec)
      BY <3>1, Others, ClientIs DEF BlobInv
    <3>. QED BY <1>0, <1>3, <2>2, <3>1, <3>2
  <2>. QED BY <2>1, <2>2
<1>. QED BY <1>1, <1>4 DEF HeldInTime

LEMMA PutBlobBlob ==
  ASSUME BlobInv, NEW s \in Senders, PutBlob(s)
  PROVE  BlobWithRendezvous' /\ HeldInTime'
<1>. DEFINE c0 == typed[s]
            blob == [key |-> sealedFor[s], note |-> s, expires |-> call[s].expires]
<1>0. /\ records' = Records /\ now' = now /\ typed' = typed
      /\ blobs' = Blobs \/ blobs' = [Blobs EXCEPT ![c0] = blob]
      /\ call' = Fail(s, "conflict") \/ call' = Answer(s, NoKey, NoNote, 0)
      /\ Waits(s, "upload", "held")
  BY DEF PutBlob, senderVars
<1>1. c0 \in Codes /\ Blobs \in [Codes -> [key: Keys, note: Notes, expires: Nat]]
  BY SweptType DEF BlobInv, TypeOK, SenderType
<1>2. HeldInTime'
  <2>1. \A u \in Senders : Waits(u, "upload", "held")' => call'[u] = call[u]
    BY <1>0, Others, ClientIs DEF BlobInv, Waits
  <2>2. \A c \in Codes : records[c].expires > now => records'[c].expires = records[c].expires
    BY <1>0, Swept DEF BlobInv
  <2>. QED BY <1>0, <2>1, <2>2, HeldKept DEF Waits
<1>3. BlobWithRendezvous'
  <2>1. CASE blobs' = Blobs
    BY <1>0, <2>1, SweepKeeps
  <2>2. CASE blobs' = [Blobs EXCEPT ![c0] = blob]
    <3>. SUFFICES ASSUME NEW c \in Codes, blobs'[c].expires > now
                  PROVE  records'[c].expires = blobs'[c].expires
      BY <1>0 DEF BlobWithRendezvous
    <3>1. CASE c = c0
      <4>1. blobs'[c].expires = call[s].expires
        BY <1>1, <2>2, <3>1
      <4>2. records[c].expires = call[s].expires
        BY <1>0, <3>1, <4>1 DEF BlobInv, HeldInTime
      <4>. QED BY <1>0, <4>1, <4>2, Swept DEF BlobInv
    <3>2. CASE c # c0
      <4>1. blobs'[c] = Blobs[c]
        BY <1>1, <2>2, <3>2
      <4>. QED BY <1>0, <4>1, Swept DEF BlobInv, BlobWithRendezvous
    <3>. QED BY <3>1, <3>2
  <2>. QED BY <1>0, <2>1, <2>2
<1>. QED BY <1>2, <1>3

LEMMA DownloadBlob ==
  ASSUME BlobInv, NEW r \in Recipients, Download(r)
  PROVE  BlobWithRendezvous' /\ HeldInTime'
<1>0. /\ records' = records /\ now' = now /\ typed' = typed
      /\ blobs' = [blobs EXCEPT ![CodeOf[r]] = NoBlob]
  BY DEF Download, AfterTake, senderVars
<1>1. \A s \in Senders : call'[s] = call[s]
  <2>. DEFINE b == blobs[CodeOf[r]]
  <2>1. call' = Fail(r, "notFound") \/ call' = Answer(r, b.key, b.note, 0)
    BY DEF Download
  <2>. QED BY <2>1, Others, ClientIs, ClientsAssumption DEF BlobInv
<1>2. HeldInTime'
  BY <1>0, <1>1, HeldKept DEF Waits
<1>3. \A c \in Codes : blobs'[c] = blobs[c] \/ blobs'[c] = NoBlob
  BY <1>0, ClientIs DEF BlobInv, TypeOK, StoreType
<1>4. now \in Nat
  BY DEF BlobInv, TypeOK
<1>5. BlobWithRendezvous'
  BY <1>0, <1>3, <1>4 DEF BlobInv, BlobWithRendezvous, NoBlob
<1>. QED BY <1>2, <1>5

LEMMA RestartBlob ==
  ASSUME BlobInv, Restart
  PROVE  BlobWithRendezvous' /\ HeldInTime'
<1>1. \A s \in Senders : ~ Waits(s, "upload", "held")'
  BY ClientIs DEF Restart, Waits, NoCall
<1>2. \A c \in Codes : blobs'[c].expires = 0
  BY DEF Restart, NoBlob
<1>3. now' \in Nat
  BY DEF Restart, BlobInv, TypeOK
<1>. QED BY <1>1, <1>2, <1>3 DEF BlobWithRendezvous, HeldInTime

LEMMA TickBlob ==
  ASSUME BlobInv, Tick
  PROVE  BlobWithRendezvous' /\ HeldInTime'
<1>1. /\ UNCHANGED <<records, blobs, call, typed>>
      /\ now' = now + 1 /\ now \in Nat
  BY DEF Tick, store, senderVars, BlobInv, TypeOK
<1>2. \A c \in Codes : blobs[c].expires \in Nat
  BY DEF BlobInv, TypeOK, StoreType
<1>3. \A s \in Senders : call[s].expires \in Nat
  BY ClientIs DEF BlobInv, TypeOK, CallType
<1>4. BlobWithRendezvous'
  BY <1>1, <1>2 DEF BlobInv, BlobWithRendezvous
<1>5. HeldInTime'
  BY <1>1, <1>3 DEF BlobInv, HeldInTime, Waits
<1>. QED BY <1>4, <1>5

\* A client's own step leaves the store alone and holds nothing.
LEMMA ClientStepBlob ==
  ASSUME BlobInv, UNCHANGED <<now, store, typed>>, NEW x \in Clients,
         UNCHANGED call \/ \E op \in Ops : call' = [call EXCEPT ![x] = Ask(op)]
  PROVE  BlobWithRendezvous' /\ HeldInTime'
<1>1. BlobWithRendezvous'
  BY DEF BlobInv, BlobWithRendezvous, store
<1>2. ASSUME NEW s \in Senders, Waits(s, "upload", "held")'
      PROVE  call'[s] = call[s]
  <2>1. call \in CallTable /\ s \in Clients
    BY CallTypeIs, ClientIs DEF BlobInv, TypeOK
  <2>. QED BY <1>2, <2>1 DEF Ask, NoCall, Waits, CallTable
<1>3. HeldInTime'
  BY <1>2, HeldKept DEF Waits, store
<1>. QED BY <1>1, <1>3

\* A blob that can still be picked up belongs to a rendezvous that is still
\* open, for any number of uploads racing sweeps, restarts and mints between
\* upload_blob's two critical sections.
THEOREM BlobsHaveRendezvous == Spec => []BlobWithRendezvous
<1>1. Init => BlobWithRendezvous /\ HeldInTime
  BY ClientIs DEF Init, BlobWithRendezvous, HeldInTime, NoBlob, NoCall, Waits
<1>2. BlobInv /\ [Next]_vars => (BlobWithRendezvous /\ HeldInTime)'
  <2>1. ASSUME BlobInv, UNCHANGED vars PROVE BlobWithRendezvous' /\ HeldInTime'
    BY <2>1 DEF vars, store, senderVars, BlobInv, BlobWithRendezvous, HeldInTime, Waits
  <2>2. ASSUME BlobInv, NEW r \in Recipients,
               RecipientStep(r) \/ OpenDialog(r) \/ CloseDialog(r) \/ ReceiveLost(r)
        PROVE  BlobWithRendezvous' /\ HeldInTime'
    <3>1. /\ UNCHANGED <<now, store, typed>>
          /\ UNCHANGED call \/ \E op \in Ops : call' = [call EXCEPT ![r] = Ask(op)]
      BY <2>2 DEF RecipientStep, MintAnswered, PollAnswered, Wake, Save, OpenDialog,
                  CloseDialog, ReceiveLost, senderVars, Ops
    <3>. QED BY <2>2, <3>1, ClientStepBlob, ClientIs
  <2>3. ASSUME BlobInv, NEW s \in Senders, SenderStep(s) \/ Submit(s) \/ SendLost(s)
        PROVE  BlobWithRendezvous' /\ HeldInTime'
    <3>1. /\ UNCHANGED <<now, store, typed>>
          /\ UNCHANGED call \/ \E op \in Ops : call' = [call EXCEPT ![s] = Ask(op)]
      BY <2>3 DEF SenderStep, FetchAnswered, UploadAnswered, Submit, SendLost, Ops
    <3>. QED BY <2>3, <3>1, ClientStepBlob, ClientIs
  <2>4. ASSUME BlobInv, NEW s \in Senders, Fetch(s)
        PROVE  BlobWithRendezvous' /\ HeldInTime'
    <3>. DEFINE rec == records[typed[s]]
    <3>1. /\ UNCHANGED <<now, store, typed>>
          /\ call' = Fail(s, Status(rec)) \/ call' = Answer(s, rec.key, NoNote, 0)
      BY <2>4 DEF Fetch, senderVars
    <3>2. \A u \in Senders : Waits(u, "upload", "held")' => call'[u] = call[u]
      BY <2>4, <3>1, Others, ClientIs DEF BlobInv, Waits
    <3>3. HeldInTime'
      BY <2>4, <3>1, <3>2, HeldKept DEF Waits, store
    <3>. QED BY <2>4, <3>1, <3>3 DEF BlobInv, BlobWithRendezvous, store
  <2>. QED BY <2>1, <2>2, <2>3, <2>4, CountMintBlob, PutMintBlob, CheckUploadBlob,
              PutBlobBlob, DownloadBlob, RestartBlob, TickBlob
           DEF Next, ServeRecipient, ServeSender
<1>. QED BY <1>1, <1>2, TypeCorrect, PTL DEF Spec, BlobInv

-----------------------------------------------------------------------------
(* The life of the wasm handle: inductive once recv and frees are typed.   *)

\* The dialog frees its handle exactly once, however answers, lost
\* connections and the closing of the dialog interleave.
THEOREM HandlesFreedOnce == Spec => []HandleFreedOnce
<1>1. Init => HandleFreedOnce
  BY DEF Init, HandleFreedOnce, Ended
<1>2. TypeOK /\ HandleFreedOnce /\ [Next]_vars => HandleFreedOnce'
  <2>. SUFFICES ASSUME TypeOK, HandleFreedOnce, [Next]_vars PROVE HandleFreedOnce'
    OBVIOUS
  <2>0. recv \in [Recipients -> {"idle", "minting", "polling", "asleep", "saving"} \cup Ended]
        /\ frees \in [Recipients -> Nat]
    BY DEF TypeOK, RecipientType
  <2>1. CASE UNCHANGED <<recv, frees>>
    BY <2>1 DEF HandleFreedOnce
  <2>2. ASSUME NEW r \in Recipients, OpenDialog(r) PROVE HandleFreedOnce'
    BY <2>0, <2>2 DEF OpenDialog, HandleFreedOnce, Ended
  <2>3. ASSUME NEW r \in Recipients, MintAnswered(r) PROVE HandleFreedOnce'
    BY <2>0, <2>3 DEF MintAnswered, GiveUp, Outcome, Free, HandleFreedOnce, Ended
  <2>4. ASSUME NEW r \in Recipients, PollAnswered(r) PROVE HandleFreedOnce'
    BY <2>0, <2>4 DEF PollAnswered, GiveUp, Outcome, Free, HandleFreedOnce, Ended
  <2>5. ASSUME NEW r \in Recipients, Wake(r) PROVE HandleFreedOnce'
    BY <2>0, <2>5 DEF Wake, GiveUp, Outcome, Free, HandleFreedOnce, Ended
  <2>6. ASSUME NEW r \in Recipients, ReceiveLost(r) PROVE HandleFreedOnce'
    BY <2>0, <2>6 DEF ReceiveLost, GiveUp, Outcome, Free, HandleFreedOnce, Ended
  <2>7. ASSUME NEW r \in Recipients, CloseDialog(r) PROVE HandleFreedOnce'
    BY <2>0, <2>7 DEF CloseDialog, Free, HandleFreedOnce, Ended
  <2>8. ASSUME NEW r \in Recipients, Save(r) PROVE HandleFreedOnce'
    BY <2>0, <2>8 DEF Save, Outcome, HandleFreedOnce, Ended
  <2>9. ASSUME NEW r \in Recipients, ServeRecipient(r) PROVE UNCHANGED <<recv, frees>>
    BY <2>9 DEF ServeRecipient, CountMint, PutMint, Download, recipientVars
  <2>10. ASSUME NEW s \in Senders, ServeSender(s) \/ SenderStep(s) \/ Submit(s) \/ SendLost(s)
         PROVE  UNCHANGED <<recv, frees>>
    BY <2>10 DEF ServeSender, Fetch, CheckUpload, PutBlob, SenderStep, FetchAnswered,
                 UploadAnswered, Submit, SendLost, recipientVars
  <2>11. Restart \/ Tick \/ UNCHANGED vars => UNCHANGED <<recv, frees>>
    BY DEF Restart, Tick, vars, recipientVars
  <2>. QED BY <2>1, <2>2, <2>3, <2>4, <2>5, <2>6, <2>7, <2>8, <2>9, <2>10, <2>11
           DEF Next, RecipientStep
<1>. QED BY <1>1, <1>2, TypeCorrect, PTL DEF Spec

-----------------------------------------------------------------------------
(* Where a note may travel.  A sender fixes the code and the key before it *)
(* uploads; a blob in the store, in an answer or saved keeps both.         *)

Sealed(s, key, c) ==
  sealedFor[s] = key /\ typed[s] = c /\ send[s] \notin {"idle", "fetching"}
StillSealed(s, key, c) ==
  sealedFor'[s] = key /\ typed'[s] = c /\ send'[s] \notin {"idle", "fetching"}

UploadAfterSeal ==
  \A s \in Senders : call[s].op = "upload" => send[s] \notin {"idle", "fetching"}
StagedSealed ==
  \A c \in Codes : blobs[c].note # NoNote => Sealed(blobs[c].note, blobs[c].key, c)
AnsweredSealed ==
  \A r \in Recipients : call[r].note # NoNote => Sealed(call[r].note, call[r].key, CodeOf[r])
SavingOwn ==
  \A r \in Recipients : recv[r] = "saving" => call[r].stage = "answered" /\ call[r].key = r
SavedSealed ==
  \A r \in Recipients : saved[r] # NoNote => Sealed(saved[r], r, CodeOf[r])

AddressInv ==
  UploadAfterSeal /\ StagedSealed /\ AnsweredSealed /\ SavingOwn /\ SavedSealed

\* What a sender has fixed stays: only FetchAnswered seals, and before that
\* the sender is still fetching.
LEMMA SealedKept ==
  ASSUME TypeOK, [Next]_vars, NEW s \in Senders, NEW key, NEW c, Sealed(s, key, c)
  PROVE  StillSealed(s, key, c)
<1>0. /\ send \in [Senders -> {"idle", "fetching", "uploading", "sent", "error"}]
      /\ sealedFor \in [Senders -> Keys]
  BY DEF TypeOK, SenderType
<1>1. CASE UNCHANGED <<send, typed, sealedFor>>
  BY <1>1 DEF Sealed, StillSealed
<1>2. ASSUME NEW u \in Senders, SenderStep(u) \/ Submit(u) \/ SendLost(u)
      PROVE  StillSealed(s, key, c)
  BY <1>0, <1>2 DEF SenderStep, FetchAnswered, UploadAnswered, Submit, SendLost, Sealed, StillSealed
<1>3. ASSUME NEW u \in Senders, ServeSender(u)
      PROVE  UNCHANGED <<send, typed, sealedFor>>
  BY <1>3 DEF ServeSender, Fetch, CheckUpload, PutBlob, senderVars
<1>4. ASSUME NEW r \in Recipients,
             ServeRecipient(r) \/ RecipientStep(r) \/ OpenDialog(r) \/ CloseDialog(r) \/ ReceiveLost(r)
      PROVE  UNCHANGED <<send, typed, sealedFor>>
  BY <1>4 DEF ServeRecipient, CountMint, PutMint, Download, RecipientStep, MintAnswered,
              PollAnswered, Wake, Save, OpenDialog, CloseDialog, ReceiveLost, senderVars
<1>5. Restart \/ Tick \/ UNCHANGED vars => UNCHANGED <<send, typed, sealedFor>>
  BY DEF Restart, Tick, vars, senderVars
<1>. QED BY <1>1, <1>2, <1>3, <1>4, <1>5 DEF Next

\* A client asks: a sender uploads only as it seals, a recipient that asks is
\* not saving.
Asks(x) ==
  \E op \in Ops :
    /\ call'[x] = Ask(op)
    /\ x \in Senders /\ op = "upload" => send'[x] = "uploading"
    /\ x \in Recipients => recv'[x] # "saving"

\* How a step changes one call: a new one, the server's answer, or a restart.
CallMoves(x) ==
  \/ call'[x] = call[x]
  \/ Asks(x)
  \/ call'[x] = NoCall /\ call[x].stage = "held"
  \/ \E st : call'[x] = Fail(x, st)[x] /\ call[x].stage # "answered"
  \/ \E e : call'[x] = Hold(x, e)[x] /\ call[x].stage # "answered"
  \/ \E k, e : call'[x] = Answer(x, k, NoNote, e)[x] /\ call[x].stage # "answered"
  \/ /\ x \in Recipients /\ call[x].stage # "answered"
     /\ call'[x] = Answer(x, blobs[CodeOf[x]].key, blobs[CodeOf[x]].note, 0)[x]

LEMMA CallChange ==
  ASSUME TypeOK, [Next]_vars, NEW x \in Clients
  PROVE  CallMoves(x)
<1>0. call \in CallTable
  BY CallTypeIs DEF TypeOK
<1>1. ASSUME NEW y \in Clients, NEW op \in Ops, call' = [call EXCEPT ![y] = Ask(op)],
             y \in Senders /\ op = "upload" => send'[y] = "uploading",
             y \in Recipients => recv'[y] # "saving"
      PROVE  CallMoves(x)
  BY <1>0, <1>1 DEF CallTable, CallMoves, Asks
<1>2. ASSUME NEW y \in Clients, call[y].stage # "answered",
             \/ \E st : call' = Fail(y, st)
             \/ \E e : call' = Hold(y, e)
             \/ \E k, e : call' = Answer(y, k, NoNote, e)
             \/ y \in Recipients /\ call' = Answer(y, blobs[CodeOf[y]].key, blobs[CodeOf[y]].note, 0)
      PROVE  CallMoves(x)
  <2>1. CASE x = y
    BY <1>2, <2>1 DEF CallMoves
  <2>2. CASE x # y
    <3>1. call'[x] = call[x]
      BY <1>2, <2>2, Others
    <3>. QED BY <3>1 DEF CallMoves
  <2>. QED BY <2>1, <2>2
<1>3. ASSUME NEW r \in Recipients, ServeRecipient(r) PROVE CallMoves(x)
  <2>1. call[r].stage # "answered" /\ r \in Clients
    BY <1>3, ClientIs DEF ServeRecipient, CountMint, PutMint, Download, Waits
  <2>2. CASE CountMint(r)
    <3>1. call' = Hold(r, 0) \/ call' = Fail(r, "limited")
      BY <2>2 DEF CountMint
    <3>. QED BY <1>2, <2>1, <3>1
  <2>3. CASE PutMint(r)
    <3>1. call' = Fail(r, "conflict") \/ call' = Answer(r, NoKey, NoNote, now + TTL)
      BY <2>3 DEF PutMint
    <3>. QED BY <1>2, <2>1, <3>1
  <2>4. CASE Download(r)
    <3>1. \/ call' = Fail(r, "notFound")
          \/ call' = Answer(r, blobs[CodeOf[r]].key, blobs[CodeOf[r]].note, 0)
      BY <2>4 DEF Download
    <3>. QED BY <1>2, <2>1, <3>1
  <2>. QED BY <1>3, <2>2, <2>3, <2>4 DEF ServeRecipient
<1>4. ASSUME NEW s \in Senders, ServeSender(s) PROVE CallMoves(x)
  <2>1. call[s].stage # "answered" /\ s \in Clients
    BY <1>4, ClientIs DEF ServeSender, Fetch, CheckUpload, PutBlob, Waits
  <2>. DEFINE rec == records[typed[s]]
  <2>2. \/ call' = Fail(s, Status(rec)) \/ call' = Fail(s, "tooLarge")
        \/ call' = Fail(s, "conflict") \/ call' = Hold(s, BlobExpiry(rec))
        \/ call' = Answer(s, rec.key, NoNote, 0) \/ call' = Answer(s, NoKey, NoNote, 0)
    BY <1>4 DEF ServeSender, Fetch, CheckUpload, PutBlob
  <2>. HIDE DEF rec
  <2>. QED BY <1>2, <2>1, <2>2
<1>5. ASSUME NEW r \in Recipients,
             RecipientStep(r) \/ OpenDialog(r) \/ CloseDialog(r) \/ ReceiveLost(r)
      PROVE  CallMoves(x)
  <2>1. r \in Clients /\ r \notin Senders /\ DOMAIN recv = Recipients
    BY ClientIs, ClientsAssumption DEF TypeOK, RecipientType
  <2>2. CASE OpenDialog(r)
    BY <1>1, <2>1, <2>2 DEF OpenDialog, Ops
  <2>3. CASE MintAnswered(r)
    BY <1>1, <2>1, <2>3 DEF MintAnswered, Ops, CallMoves
  <2>4. CASE Wake(r)
    BY <1>1, <2>1, <2>4 DEF Wake, Ops, CallMoves
  <2>5. CASE PollAnswered(r) \/ Save(r) \/ CloseDialog(r) \/ ReceiveLost(r)
    BY <2>5 DEF PollAnswered, Save, CloseDialog, ReceiveLost, CallMoves
  <2>. QED BY <1>5, <2>2, <2>3, <2>4, <2>5 DEF RecipientStep
<1>6. ASSUME NEW s \in Senders, SenderStep(s) \/ Submit(s) \/ SendLost(s)
      PROVE  CallMoves(x)
  <2>1. s \in Clients /\ s \notin Recipients /\ DOMAIN send = Senders
    BY ClientIs, ClientsAssumption DEF TypeOK, SenderType
  <2>2. CASE Submit(s)
    BY <1>1, <2>1, <2>2 DEF Submit, Ops
  <2>3. CASE FetchAnswered(s)
    BY <1>1, <2>1, <2>3 DEF FetchAnswered, Ops, CallMoves
  <2>4. CASE UploadAnswered(s) \/ SendLost(s)
    BY <2>4 DEF UploadAnswered, SendLost, CallMoves
  <2>. QED BY <1>6, <2>2, <2>3, <2>4 DEF SenderStep
<1>7. CASE Restart
  BY <1>7 DEF Restart, CallMoves
<1>8. CASE Tick \/ UNCHANGED vars
  BY <1>8 DEF Tick, vars, CallMoves
<1>. QED BY <1>3, <1>4, <1>5, <1>6, <1>7, <1>8 DEF Next

\* What that means for the fields the argument is about.
LEMMA Payload ==
  ASSUME TypeOK, [Next]_vars, NEW x \in Clients
  PROVE  /\ \/ call'[x].note = NoNote
            \/ call'[x].note = call[x].note /\ call'[x].key = call[x].key
            \/ /\ x \in Recipients
               /\ call'[x].note = blobs[CodeOf[x]].note /\ call'[x].key = blobs[CodeOf[x]].key
         /\ \/ call'[x] = call[x]
            \/ call[x].stage # "answered"
            \/ Asks(x)
         /\ \/ call'[x].op = call[x].op
            \/ call'[x].op = "none"
            \/ Asks(x)
<1>0. call \in CallTable /\ CallMoves(x)
  BY CallTypeIs, CallChange DEF TypeOK
<1>1. CASE call'[x] = call[x]
  BY <1>1
<1>2. CASE Asks(x)
  BY <1>2 DEF Asks, Ask, NoCall
<1>3. CASE call'[x] = NoCall /\ call[x].stage = "held"
  BY <1>3 DEF NoCall
<1>4. ASSUME NEW st, call'[x] = Fail(x, st)[x], call[x].stage # "answered"
      PROVE  call'[x].note = call[x].note /\ call'[x].key = call[x].key /\ call'[x].op = call[x].op
  BY <1>0, <1>4 DEF Fail, CallTable, CallRecord
<1>5. ASSUME NEW e, call'[x] = Hold(x, e)[x], call[x].stage # "answered"
      PROVE  call'[x].note = call[x].note /\ call'[x].key = call[x].key /\ call'[x].op = call[x].op
  BY <1>0, <1>5 DEF Hold, CallTable, CallRecord
<1>6. ASSUME NEW k, NEW n, NEW e, call'[x] = Answer(x, k, n, e)[x], call[x].stage # "answered"
      PROVE  call'[x].note = n /\ call'[x].key = k /\ call'[x].op = call[x].op
  BY <1>0, <1>6 DEF Answer, CallTable, CallRecord
<1>. QED BY <1>0, <1>1, <1>2, <1>3, <1>4, <1>5, <1>6 DEF CallMoves

LEMMA StagedStep ==
  ASSUME TypeOK, UploadAfterSeal, StagedSealed, [Next]_vars
  PROVE  StagedSealed'
<1>. SUFFICES ASSUME NEW c \in Codes, blobs'[c].note # NoNote
              PROVE  StillSealed(blobs'[c].note, blobs'[c].key, c)
  BY DEF StagedSealed, Sealed, StillSealed
<1>0. /\ blobs \in [Codes -> [key: Keys, note: Notes, expires: Nat]]
      /\ Blobs \in [Codes -> [key: Keys, note: Notes, expires: Nat]]
      /\ Blobs[c] = blobs[c] \/ Blobs[c] = NoBlob
  BY SweptType DEF TypeOK, StoreType, Blobs, Retain
<1>1. CASE blobs'[c] = blobs[c]
  <2>1. blobs[c].note \in Senders /\ Sealed(blobs[c].note, blobs[c].key, c)
    BY <1>0, <1>1 DEF StagedSealed, Notes
  <2>. QED BY <1>1, <2>1, SealedKept
<1>2. ASSUME blobs'[c] = NoBlob PROVE FALSE
  BY <1>2 DEF NoBlob
<1>3. CASE \E s \in Senders : PutBlob(s)
  <2>1. PICK s \in Senders : PutBlob(s)
    BY <1>3
  <2>2. /\ call[s].op = "upload" /\ UNCHANGED <<send, typed, sealedFor>>
        /\ \/ blobs' = Blobs
           \/ blobs' = [Blobs EXCEPT ![typed[s]] =
                          [key |-> sealedFor[s], note |-> s, expires |-> call[s].expires]]
    BY <2>1 DEF PutBlob, Waits, senderVars
  <2>3. CASE blobs'[c] = Blobs[c]
    BY <1>0, <1>1, <1>2, <2>3
  <2>4. CASE typed[s] = c /\ blobs'[c] = [key |-> sealedFor[s], note |-> s, expires |-> call[s].expires]
    BY <2>2, <2>4 DEF StillSealed, UploadAfterSeal
  <2>. QED BY <1>0, <2>2, <2>3, <2>4
<1>4. ASSUME NEW s \in Senders, Fetch(s) \/ CheckUpload(s) \/ SenderStep(s) \/ Submit(s) \/ SendLost(s)
      PROVE  blobs' = blobs
  BY <1>4 DEF Fetch, CheckUpload, SenderStep, FetchAnswered, UploadAnswered, Submit, SendLost, store
<1>5. ASSUME NEW r \in Recipients,
             RecipientStep(r) \/ OpenDialog(r) \/ CloseDialog(r) \/ ReceiveLost(r)
      PROVE  blobs' = blobs
  BY <1>5 DEF RecipientStep, MintAnswered, PollAnswered, Wake, Save, OpenDialog, CloseDialog,
              ReceiveLost, store
<1>6. ASSUME NEW r \in Recipients, ServeRecipient(r)
      PROVE  blobs'[c] = blobs[c] \/ blobs'[c] = NoBlob
  <2>1. blobs' = Blobs \/ blobs' = [blobs EXCEPT ![CodeOf[r]] = NoBlob]
    BY <1>6 DEF ServeRecipient, CountMint, PutMint, Download, AfterTake
  <2>. QED BY <1>0, <2>1
<1>7. Restart \/ Tick \/ UNCHANGED vars => blobs'[c] = blobs[c] \/ blobs'[c] = NoBlob
  BY DEF Restart, Tick, vars, store
<1>. QED BY <1>1, <1>2, <1>3, <1>4, <1>5, <1>6, <1>7 DEF Next, ServeSender

LEMMA AnsweredStep ==
  ASSUME TypeOK, StagedSealed, AnsweredSealed, [Next]_vars
  PROVE  AnsweredSealed'
<1>. SUFFICES ASSUME NEW r \in Recipients, call'[r].note # NoNote
              PROVE  StillSealed(call'[r].note, call'[r].key, CodeOf[r])
  BY DEF AnsweredSealed, Sealed, StillSealed
<1>0. r \in Clients /\ CodeOf[r] \in Codes
  BY ClientIs
<1>1. \/ call'[r].note = call[r].note /\ call'[r].key = call[r].key
      \/ call'[r].note = blobs[CodeOf[r]].note /\ call'[r].key = blobs[CodeOf[r]].key
  BY <1>0, Payload
<1>2. call[r].note \in Notes /\ blobs[CodeOf[r]].note \in Notes
  BY <1>0 DEF TypeOK, CallType, StoreType
<1>3. call'[r].note \in Senders /\ Sealed(call'[r].note, call'[r].key, CodeOf[r])
  BY <1>0, <1>1, <1>2 DEF StagedSealed, AnsweredSealed, Notes
<1>. QED BY <1>3, SealedKept

LEMMA UploadStep ==
  ASSUME TypeOK, UploadAfterSeal, [Next]_vars
  PROVE  UploadAfterSeal'
<1>. SUFFICES ASSUME NEW s \in Senders, call'[s].op = "upload"
              PROVE  send'[s] \notin {"idle", "fetching"}
  BY DEF UploadAfterSeal
<1>0. send \in [Senders -> {"idle", "fetching", "uploading", "sent", "error"}] /\ s \in Clients
  BY ClientIs DEF TypeOK, SenderType
<1>1. CASE call[s].op = "upload"
  <2>1. Sealed(s, sealedFor[s], typed[s])
    BY <1>1 DEF UploadAfterSeal, Sealed
  <2>. QED BY <2>1, SealedKept DEF StillSealed
<1>2. CASE call[s].op # "upload"
  <2>1. Asks(s)
    BY <1>0, <1>2, Payload
  <2>2. send'[s] = "uploading"
    BY <2>1 DEF Asks, Ask, NoCall, Ops
  <2>. QED BY <2>2
<1>. QED BY <1>1, <1>2

\* A recipient that saves holds an answer sealed for its own key.
LEMMA SavingStep ==
  ASSUME TypeOK, SavingOwn, [Next]_vars
  PROVE  SavingOwn'
<1>. SUFFICES ASSUME NEW r \in Recipients, recv'[r] = "saving"
              PROVE  call'[r].stage = "answered" /\ call'[r].key = r
  BY DEF SavingOwn
<1>0. recv \in [Recipients -> {"idle", "minting", "polling", "asleep", "saving"} \cup Ended]
      /\ r \in Clients
  BY ClientIs DEF TypeOK, RecipientType
<1>1. CASE recv[r] = "saving"
  <2>1. call'[r] = call[r]
    BY <1>0, <1>1, Payload DEF SavingOwn, Asks
  <2>. QED BY <1>1, <2>1 DEF SavingOwn
<1>2. CASE recv[r] # "saving"
  <2>1. ASSUME NEW q \in Recipients,
               RecipientStep(q) \/ OpenDialog(q) \/ CloseDialog(q) \/ ReceiveLost(q)
        PROVE  PollAnswered(r)
    BY <1>0, <1>2, <2>1 DEF RecipientStep, MintAnswered, PollAnswered, Wake, Save, OpenDialog,
                            CloseDialog, ReceiveLost, GiveUp, Outcome, Ended
  <2>2. ASSUME NEW q \in Recipients, ServeRecipient(q) PROVE recv' = recv
    BY <2>2 DEF ServeRecipient, CountMint, PutMint, Download, recipientVars
  <2>3. ASSUME NEW s \in Senders, ServeSender(s) \/ SenderStep(s) \/ Submit(s) \/ SendLost(s)
        PROVE  recv' = recv
    BY <2>3 DEF ServeSender, Fetch, CheckUpload, PutBlob, SenderStep, FetchAnswered,
                UploadAnswered, Submit, SendLost, recipientVars
  <2>4. Restart \/ Tick \/ UNCHANGED vars => recv' = recv
    BY DEF Restart, Tick, vars, recipientVars
  <2>5. PollAnswered(r)
    BY <1>2, <2>1, <2>2, <2>3, <2>4 DEF Next
  <2>6. call'[r] = call[r] /\ call[r].stage = "answered" /\ call[r].key = r
    BY <1>0, <1>2, <2>5 DEF PollAnswered, Waits, Opens, GiveUp, Outcome, Ended
  <2>. QED BY <2>6
<1>. QED BY <1>1, <1>2

LEMMA SavedStep ==
  ASSUME TypeOK, AddressInv, [Next]_vars
  PROVE  SavedSealed'
<1>. SUFFICES ASSUME NEW r \in Recipients, saved'[r] # NoNote
              PROVE  StillSealed(saved'[r], r, CodeOf[r])
  BY DEF SavedSealed, Sealed, StillSealed
<1>0. saved \in [Recipients -> Notes] /\ call[r].note \in Notes
  BY ClientIs DEF TypeOK, RecipientType, CallType
<1>1. CASE saved'[r] = saved[r]
  <2>1. saved[r] \in Senders /\ Sealed(saved[r], r, CodeOf[r])
    BY <1>0, <1>1 DEF AddressInv, SavedSealed, Notes
  <2>. QED BY <1>1, <2>1, SealedKept
<1>2. CASE Save(r) /\ saved'[r] = call[r].note
  <2>1. call[r].note \in Senders /\ Sealed(call[r].note, r, CodeOf[r])
    BY <1>0, <1>2 DEF Save, AddressInv, AnsweredSealed, SavingOwn, Notes
  <2>. QED BY <1>2, <2>1, SealedKept
<1>3. ASSUME NEW q \in Recipients, Save(q)
      PROVE  saved'[r] = saved[r] \/ (Save(r) /\ saved'[r] = call[r].note)
  BY <1>0, <1>3 DEF Save
<1>4. ASSUME NEW q \in Recipients,
             ServeRecipient(q) \/ MintAnswered(q) \/ PollAnswered(q) \/ Wake(q)
               \/ OpenDialog(q) \/ CloseDialog(q) \/ ReceiveLost(q)
      PROVE  saved' = saved
  BY <1>4 DEF ServeRecipient, CountMint, PutMint, Download, MintAnswered, PollAnswered, Wake,
              OpenDialog, CloseDialog, ReceiveLost, recipientVars
<1>5. ASSUME NEW s \in Senders, ServeSender(s) \/ SenderStep(s) \/ Submit(s) \/ SendLost(s)
      PROVE  saved' = saved
  BY <1>5 DEF ServeSender, Fetch, CheckUpload, PutBlob, SenderStep, FetchAnswered,
              UploadAnswered, Submit, SendLost, recipientVars
<1>6. Restart \/ Tick \/ UNCHANGED vars => saved' = saved
  BY DEF Restart, Tick, vars, recipientVars
<1>. QED BY <1>1, <1>2, <1>3, <1>4, <1>5, <1>6 DEF Next, RecipientStep

\* A note is saved only by the recipient it was encrypted to, and that is one
\* whose code its sender typed, for any number of recipients sharing codes.
THEOREM NotesReachAddressee == Spec => []AddresseeOnly
<1>1. Init => AddressInv
  BY ClientIs DEF Init, AddressInv, UploadAfterSeal, StagedSealed, AnsweredSealed, SavingOwn,
                  SavedSealed, NoBlob, NoCall
<1>2. TypeOK /\ AddressInv /\ [Next]_vars => AddressInv'
  BY UploadStep, StagedStep, AnsweredStep, SavingStep, SavedStep DEF AddressInv
<1>3. AddressInv => AddresseeOnly
  BY DEF AddressInv, SavedSealed, Sealed, AddresseeOnly
<1>. QED BY <1>1, <1>2, <1>3, TypeCorrect, PTL DEF Spec

-----------------------------------------------------------------------------
(* A blob is handed out once.  An accepted upload is over for good, so its *)
(* sender cannot stage the note again; a blob in the store has not been    *)
(* handed out, and no other code holds the same note.                      *)

UploadOver(s) ==
  call[s].op = "upload" /\ call[s].stage = "answered" /\ send[s] \notin {"idle", "fetching"}
AcceptedOver == \A s \in accepted : UploadOver(s)
StagedFresh ==
  \A c \in Codes : blobs[c].expires # 0 =>
    /\ blobs[c].note \in accepted
    /\ handed[blobs[c].note] = 0
    /\ typed[blobs[c].note] = c

HandInv == AcceptedOver /\ StagedFresh /\ HandedOutOnce

\* An upload that is over stays as it is: only the server and a sender that
\* is idle or fetching touch a call, and a restart drops only held ones.
LEMMA OverKept ==
  ASSUME TypeOK, [Next]_vars, NEW s \in Senders, UploadOver(s)
  PROVE  call'[s] = call[s] /\ send'[s] \notin {"idle", "fetching"}
<1>0. s \in Clients /\ call \in CallTable
  BY ClientIs, CallTypeIs DEF TypeOK
<1>1. StillSealed(s, sealedFor[s], typed[s])
  BY SealedKept DEF UploadOver, Sealed
<1>2. CASE \E u \in Senders : SenderStep(u) \/ Submit(u) \/ SendLost(u)
  <2>1. PICK u \in Senders : SenderStep(u) \/ Submit(u) \/ SendLost(u)
    BY <1>2
  <2>2. CASE u = s
    BY <1>0, <1>1, <2>1, <2>2 DEF SenderStep, FetchAnswered, UploadAnswered, Submit, SendLost,
                                  UploadOver, StillSealed
  <2>3. CASE u # s
    BY <1>0, <1>1, <2>1, <2>3 DEF SenderStep, FetchAnswered, UploadAnswered, Submit, SendLost,
                                  CallTable, StillSealed
  <2>. QED BY <2>2, <2>3
<1>3. CASE ~\E u \in Senders : SenderStep(u) \/ Submit(u) \/ SendLost(u)
  <2>1. ~Asks(s)
    <3>1. ASSUME NEW r \in Recipients,
                 RecipientStep(r) \/ OpenDialog(r) \/ CloseDialog(r) \/ ReceiveLost(r)
          PROVE  call'[s] = call[s]
      <4>1. r # s /\ r \in Clients
        BY ClientIs, ClientsAssumption
      <4>. QED BY <1>0, <3>1, <4>1 DEF RecipientStep, MintAnswered, PollAnswered, Wake, Save,
                     OpenDialog, CloseDialog, ReceiveLost, CallTable
    <3>2. ASSUME NEW r \in Recipients, ServeRecipient(r) PROVE call'[s] = call[s]
      <4>1. r # s /\ r \in Clients
        BY ClientIs, ClientsAssumption
      <4>. QED BY <1>0, <3>2, <4>1, Others DEF ServeRecipient, CountMint, PutMint, Download
    <3>3. ASSUME NEW u \in Senders, ServeSender(u) PROVE call'[s] = call[s]
      <4>1. u # s /\ u \in Clients
        BY <3>3, ClientIs DEF ServeSender, Fetch, CheckUpload, PutBlob, Waits, UploadOver
      <4>. QED BY <1>0, <3>3, <4>1, Others DEF ServeSender, Fetch, CheckUpload, PutBlob
    <3>4. Restart \/ Tick \/ UNCHANGED vars => call'[s] = call[s]
      BY <1>0 DEF Restart, Tick, vars, UploadOver
    <3>5. call'[s] = call[s]
      BY <1>3, <3>1, <3>2, <3>3, <3>4 DEF Next
    <3>. QED BY <3>5 DEF Asks, Ask, NoCall, UploadOver
  <2>. QED BY <1>0, <1>1, <2>1, Payload DEF StillSealed, UploadOver
<1>. QED BY <1>2, <1>3

\* Only put_blob stages and accepts, only download_blob hands out.
LEMMA BlobEffects ==
  ASSUME TypeOK, [Next]_vars
  PROVE  \/ \E s \in Senders : PutBlob(s)
         \/ \E r \in Recipients : Download(r)
         \/ /\ accepted' = accepted /\ handed' = handed
            /\ \A c \in Codes : blobs'[c] = blobs[c] \/ blobs'[c] = NoBlob
<1>0. \A c \in Codes : Blobs[c] = blobs[c] \/ Blobs[c] = NoBlob
  BY DEF TypeOK, StoreType, Blobs, Retain
<1>1. ASSUME NEW s \in Senders,
             Fetch(s) \/ CheckUpload(s) \/ SenderStep(s) \/ Submit(s) \/ SendLost(s)
      PROVE  UNCHANGED <<accepted, handed, blobs>>
  BY <1>1 DEF Fetch, CheckUpload, SenderStep, FetchAnswered, UploadAnswered, Submit, SendLost,
              store, blobHistory
<1>2. ASSUME NEW r \in Recipients,
             RecipientStep(r) \/ OpenDialog(r) \/ CloseDialog(r) \/ ReceiveLost(r)
      PROVE  UNCHANGED <<accepted, handed, blobs>>
  BY <1>2 DEF RecipientStep, MintAnswered, PollAnswered, Wake, Save, OpenDialog, CloseDialog,
              ReceiveLost, store, blobHistory
<1>3. ASSUME NEW r \in Recipients, CountMint(r) \/ PutMint(r)
      PROVE  UNCHANGED <<accepted, handed>> /\ blobs' = Blobs
  BY <1>3 DEF CountMint, PutMint, blobHistory
<1>4. Tick \/ UNCHANGED vars => UNCHANGED <<accepted, handed, blobs>>
  BY DEF Tick, vars, store, blobHistory
<1>5. Restart => UNCHANGED <<accepted, handed>> /\ \A c \in Codes : blobs'[c] = NoBlob
  BY DEF Restart, blobHistory
<1>. QED BY <1>0, <1>1, <1>2, <1>3, <1>4, <1>5 DEF Next, ServeSender, ServeRecipient

\* The code a sender typed never changes.
LEMMA TypedKept == [Next]_vars => typed' = typed
BY DEF Next, ServeSender, SenderStep, ServeRecipient, RecipientStep, Fetch, CheckUpload, PutBlob,
       FetchAnswered, UploadAnswered, Submit, SendLost, CountMint, PutMint, Download, MintAnswered,
       PollAnswered, Wake, Save, OpenDialog, CloseDialog, ReceiveLost, Restart, Tick, vars, senderVars

LEMMA PutBlobHand ==
  ASSUME TypeOK, UploadAfterSeal, HandInv, [Next]_vars, NEW s \in Senders, PutBlob(s)
  PROVE  HandInv'
<1>0. /\ call \in CallTable /\ s \in Clients /\ typed[s] \in Codes /\ typed' = typed
      /\ accepted \subseteq Senders /\ handed \in [Senders -> Nat] /\ NoNote \notin Senders
      /\ Blobs \in [Codes -> [key: Keys, note: Notes, expires: Nat]]
  BY ClientIs, CallTypeIs, TypedKept, SweptType, ClientsAssumption
     DEF TypeOK, SenderType, HistoryType
<1>1. call[s].op = "upload" /\ call[s].stage = "held" /\ send' = send /\ handed' = handed
  BY DEF PutBlob, Waits, senderVars
<1>2. s \notin accepted /\ handed[s] = 0
  <2>1. s \notin accepted
    BY <1>1 DEF HandInv, AcceptedOver, UploadOver
  <2>. QED BY <1>0, <2>1 DEF HandInv, HandedOutOnce
<1>3. \A c \in Codes : Blobs[c] = blobs[c] \/ Blobs[c] = NoBlob
  BY DEF TypeOK, StoreType, Blobs, Retain
<1>4. AcceptedOver'
  <2>. SUFFICES ASSUME NEW u \in accepted' PROVE UploadOver(u)'
    BY DEF AcceptedOver
  <2>1. CASE u \in accepted
    <3>1. UploadOver(u) /\ u \in Senders
      BY <1>0, <2>1 DEF HandInv, AcceptedOver
    <3>2. call'[u] = call[u] /\ send'[u] \notin {"idle", "fetching"}
      BY <3>1, OverKept
    <3>. QED BY <3>1, <3>2 DEF UploadOver
  <2>2. CASE u \notin accepted
    <3>1. u = s /\ call' = Answer(s, NoKey, NoNote, 0)
      BY <2>2 DEF PutBlob
    <3>2. call'[s].op = "upload" /\ call'[s].stage = "answered"
      BY <1>0, <1>1, <3>1 DEF Answer, CallTable, CallRecord
    <3>3. send'[s] \notin {"idle", "fetching"}
      BY <1>1 DEF UploadAfterSeal
    <3>. QED BY <3>1, <3>2, <3>3 DEF UploadOver
  <2>. QED BY <2>1, <2>2
<1>5. StagedFresh'
  <2>. SUFFICES ASSUME NEW c \in Codes, blobs'[c].expires # 0
                PROVE  /\ blobs'[c].note \in accepted'
                       /\ handed'[blobs'[c].note] = 0
                       /\ typed'[blobs'[c].note] = c
    BY DEF StagedFresh
  <2>1. \/ blobs' = Blobs /\ accepted' = accepted
        \/ /\ accepted' = accepted \cup {s}
           /\ blobs' = [Blobs EXCEPT ![typed[s]] =
                          [key |-> sealedFor[s], note |-> s, expires |-> call[s].expires]]
    BY DEF PutBlob
  <2>2. CASE blobs'[c] = Blobs[c]
    <3>1. blobs'[c] = blobs[c] /\ blobs[c].expires # 0
      BY <1>3, <2>2 DEF NoBlob
    <3>. QED BY <1>0, <1>1, <2>1, <3>1 DEF HandInv, StagedFresh
  <2>3. CASE blobs'[c] # Blobs[c]
    <3>1. typed[s] = c /\ blobs'[c].note = s /\ s \in accepted'
      BY <1>0, <2>1, <2>3
    <3>. QED BY <1>0, <1>1, <1>2, <3>1
  <2>. QED BY <2>2, <2>3
<1>6. HandedOutOnce'
  <2>1. accepted \subseteq accepted'
    BY DEF PutBlob
  <2>. QED BY <1>1, <2>1 DEF HandInv, HandedOutOnce
<1>. QED BY <1>4, <1>5, <1>6 DEF HandInv

LEMMA DownloadHand ==
  ASSUME TypeOK, HandInv, [Next]_vars, NEW r \in Recipients, Download(r)
  PROVE  StagedFresh' /\ HandedOutOnce'
<1>. DEFINE d == CodeOf[r]
            n == blobs[d].note
<1>0. /\ d \in Codes /\ accepted \subseteq Senders /\ handed \in [Senders -> Nat]
      /\ blobs \in [Codes -> [key: Keys, note: Notes, expires: Nat]]
      /\ typed' = typed /\ accepted' = accepted /\ now \in Nat
      /\ blobs' = [blobs EXCEPT ![d] = NoBlob]
  BY ClientIs, TypedKept DEF TypeOK, StoreType, HistoryType, Download, AfterTake
<1>1. CASE handed' = handed
  <2>1. \A c \in Codes : blobs'[c] = blobs[c] \/ blobs'[c].expires = 0
    BY <1>0 DEF NoBlob
  <2>. QED BY <1>0, <1>1, <2>1 DEF HandInv, StagedFresh, HandedOutOnce
<1>2. CASE blobs[d].expires > now /\ handed' = [handed EXCEPT ![n] = @ + 1]
  <2>1. blobs[d].expires # 0
    BY <1>0, <1>2
  <2>2. n \in accepted /\ handed[n] = 0 /\ typed[n] = d /\ n \in Senders
    BY <1>0, <2>1 DEF HandInv, StagedFresh
  <2>3. handed'[n] = 1 /\ \A s \in Senders : s # n => handed'[s] = handed[s]
    BY <1>0, <1>2, <2>2
  <2>4. HandedOutOnce'
    BY <1>0, <2>2, <2>3 DEF HandInv, HandedOutOnce
  <2>5. StagedFresh'
    <3>. SUFFICES ASSUME NEW c \in Codes, blobs'[c].expires # 0
                  PROVE  /\ blobs'[c].note \in accepted'
                         /\ handed'[blobs'[c].note] = 0
                         /\ typed'[blobs'[c].note] = c
      BY DEF StagedFresh
    <3>1. c # d /\ blobs'[c] = blobs[c]
      BY <1>0 DEF NoBlob
    <3>2. blobs[c].note \in accepted /\ handed[blobs[c].note] = 0 /\ typed[blobs[c].note] = c
      BY <3>1 DEF HandInv, StagedFresh
    <3>3. blobs[c].note # n
      BY <2>2, <3>1, <3>2
    <3>. QED BY <1>0, <2>3, <3>1, <3>2, <3>3
  <2>. QED BY <2>4, <2>5
<1>. QED BY <1>1, <1>2 DEF Download

LEMMA AcceptedKept ==
  ASSUME TypeOK, AcceptedOver, [Next]_vars, accepted' = accepted
  PROVE  AcceptedOver'
<1>. SUFFICES ASSUME NEW s \in accepted PROVE UploadOver(s)'
  BY DEF AcceptedOver
<1>1. UploadOver(s) /\ s \in Senders
  BY DEF AcceptedOver, TypeOK, HistoryType
<1>2. call'[s] = call[s] /\ send'[s] \notin {"idle", "fetching"}
  BY <1>1, OverKept
<1>. QED BY <1>1, <1>2 DEF UploadOver

LEMMA HandStep ==
  ASSUME TypeOK, UploadAfterSeal, HandInv, [Next]_vars
  PROVE  HandInv'
<1>1. CASE \E s \in Senders : PutBlob(s)
  BY <1>1, PutBlobHand
<1>2. CASE \E r \in Recipients : Download(r)
  <2>1. PICK r \in Recipients : Download(r)
    BY <1>2
  <2>2. accepted' = accepted
    BY <2>1 DEF Download
  <2>3. AcceptedOver'
    BY <2>2, AcceptedKept DEF HandInv
  <2>. QED BY <2>1, <2>3, DownloadHand DEF HandInv
<1>3. CASE /\ accepted' = accepted /\ handed' = handed
           /\ \A c \in Codes : blobs'[c] = blobs[c] \/ blobs'[c] = NoBlob
  <2>1. AcceptedOver'
    BY <1>3, AcceptedKept DEF HandInv
  <2>2. StagedFresh'
    <3>1. \A c \in Codes : blobs'[c] = blobs[c] \/ blobs'[c].expires = 0
      BY <1>3 DEF NoBlob
    <3>. QED BY <1>3, <3>1, TypedKept DEF HandInv, StagedFresh
  <2>. QED BY <1>3, <2>1, <2>2 DEF HandInv, HandedOutOnce
<1>. QED BY <1>1, <1>2, <1>3, BlobEffects

\* A blob is handed out at most once and only if its upload was accepted, for
\* any number of recipients polling one code, with their polls abandoned,
\* served late or cut off by a restart.
THEOREM BlobsHandedOutOnce == Spec => []HandedOutOnce
<1>1. Init => HandInv /\ AddressInv
  BY ClientIs DEF Init, HandInv, AcceptedOver, StagedFresh, HandedOutOnce, AddressInv,
                  UploadAfterSeal, StagedSealed, AnsweredSealed, SavingOwn, SavedSealed,
                  NoBlob, NoCall
<1>2. TypeOK /\ AddressInv /\ HandInv /\ [Next]_vars => AddressInv' /\ HandInv'
  BY UploadStep, StagedStep, AnsweredStep, SavingStep, SavedStep, HandStep DEF AddressInv
<1>3. HandInv => HandedOutOnce
  BY DEF HandInv
<1>. QED BY <1>1, <1>2, <1>3, TypeCorrect, PTL DEF Spec
-----------------------------------------------------------------------------
(* The mint rate limit.  Every mint that passed is covered by the counter  *)
(* of its address until it is a full TTL old, and while a counter runs its *)
(* count bounds what any window that is not over has let pass.             *)

WindowCap ==
  \A ip \in Ips : \A from \in Nat : Cardinality(Within(admitted, ip, from)) <= RateLimit
Covered ==
  \A a \in admitted :
    a.at <= now /\ (a.at + TTL <= now \/ a.at + TTL <= counters[a.ip].expires)
CountBounds ==
  \A ip \in Ips : \A from \in Nat :
    counters[ip].expires > now /\ from + TTL > now =>
      Cardinality(Within(admitted, ip, from)) <= counters[ip].count

MintInv == IsFiniteSet(admitted) /\ WindowCap /\ Covered /\ CountBounds

LEMMA WithinFacts ==
  ASSUME NEW S, IsFiniteSet(S), NEW ip, NEW from
  PROVE  IsFiniteSet(Within(S, ip, from)) /\ Cardinality(Within(S, ip, from)) \in Nat
<1>1. Within(S, ip, from) \subseteq S
  BY DEF Within
<1>2. IsFiniteSet(Within(S, ip, from))
  BY <1>1, FS_Subset
<1>. QED BY <1>2, FS_CardinalityType

\* One more mint adds at most one to what a window has let pass.
LEMMA WithinGrows ==
  ASSUME NEW S, IsFiniteSet(S), NEW a, NEW ip, NEW from
  PROVE  Cardinality(Within(S \cup {a}, ip, from)) <= Cardinality(Within(S, ip, from)) + 1
<1>1. ASSUME NEW W, IsFiniteSet(W)
      PROVE  Cardinality(W \cup {a}) <= Cardinality(W) + 1 /\ Cardinality(W) <= Cardinality(W) + 1
  <2>1. Cardinality(W) \in Nat
    BY <1>1, FS_CardinalityType
  <2>2. Cardinality(W \cup {a}) = IF a \in W THEN Cardinality(W) ELSE Cardinality(W) + 1
    BY <1>1, FS_AddElement
  <2>. QED BY <2>1, <2>2
<1>2. \/ Within(S \cup {a}, ip, from) = Within(S, ip, from)
      \/ Within(S \cup {a}, ip, from) = Within(S, ip, from) \cup {a}
  BY DEF Within
<1>3. IsFiniteSet(Within(S, ip, from))
  BY WithinFacts
<1>. QED BY <1>1, <1>2, <1>3

\* What a step may do to the counters and the mints besides counting one.
MintQuiet ==
  /\ admitted' = admitted
  /\ now' \in Nat /\ now <= now'
  /\ \A ip \in Ips : \/ counters'[ip] = counters[ip]
                     \/ counters[ip].expires <= now /\ counters'[ip].expires = 0

LEMMA MintEffects ==
  ASSUME TypeOK, [Next]_vars
  PROVE  MintQuiet \/ Restart \/ \E r \in Recipients : CountMint(r)
<1>0. now \in Nat /\ now <= now /\ now + 1 \in Nat /\ now <= now + 1
  BY DEF TypeOK
<1>1. \A ip \in Ips : \/ Counters[ip] = counters[ip]
                      \/ counters[ip].expires <= now /\ Counters[ip].expires = 0
  BY DEF TypeOK, StoreType, Counters, Retain, NoCount
<1>2. ASSUME NEW s \in Senders,
             Fetch(s) \/ CheckUpload(s) \/ SenderStep(s) \/ Submit(s) \/ SendLost(s)
      PROVE  UNCHANGED <<admitted, now, counters>>
  BY <1>2 DEF Fetch, CheckUpload, SenderStep, FetchAnswered, UploadAnswered, Submit, SendLost, store
<1>3. ASSUME NEW r \in Recipients,
             Download(r) \/ RecipientStep(r) \/ OpenDialog(r) \/ CloseDialog(r) \/ ReceiveLost(r)
      PROVE  UNCHANGED <<admitted, now, counters>>
  BY <1>3 DEF Download, RecipientStep, MintAnswered, PollAnswered, Wake, Save, OpenDialog,
              CloseDialog, ReceiveLost, store
<1>4. ASSUME NEW s \in Senders, PutBlob(s)
      PROVE  UNCHANGED <<admitted, now>> /\ counters' = Counters
  BY <1>4 DEF PutBlob
<1>5. ASSUME NEW r \in Recipients, PutMint(r)
      PROVE  UNCHANGED <<admitted, now>> /\ counters' = Counters
  BY <1>5 DEF PutMint
<1>6. Tick => UNCHANGED <<admitted, counters>> /\ now' = now + 1
  BY DEF Tick, store
<1>7. UNCHANGED vars => UNCHANGED <<admitted, now, counters>>
  BY DEF vars, store
<1>8. UNCHANGED <<admitted, now, counters>> => MintQuiet
  BY <1>0 DEF MintQuiet
<1>9. UNCHANGED <<admitted, now>> /\ counters' = Counters => MintQuiet
  BY <1>0, <1>1 DEF MintQuiet
<1>10. UNCHANGED <<admitted, counters>> /\ now' = now + 1 => MintQuiet
  BY <1>0 DEF MintQuiet
<1>. QED BY <1>2, <1>3, <1>4, <1>5, <1>6, <1>7, <1>8, <1>9, <1>10
         DEF Next, ServeSender, ServeRecipient

LEMMA QuietMint ==
  ASSUME TypeOK, MintInv, MintQuiet
  PROVE  MintInv'
<1>0. /\ counters \in [Ips -> [count: Nat, expires: Nat]] /\ now \in Nat /\ TTL \in Nat
      /\ admitted \subseteq [by: Recipients, ip: Ips, at: Nat]
  BY LimitsAssumption DEF TypeOK, StoreType, HistoryType
<1>1. IsFiniteSet(admitted') /\ WindowCap'
  BY DEF MintInv, MintQuiet, WindowCap, Within
<1>2. Covered'
  <2>. SUFFICES ASSUME NEW a \in admitted
                PROVE  /\ a.at <= now'
                       /\ a.at + TTL <= now' \/ a.at + TTL <= counters'[a.ip].expires
    BY DEF Covered, MintQuiet
  <2>1. a.ip \in Ips /\ a.at \in Nat /\ a.at <= now
        /\ (a.at + TTL <= now \/ a.at + TTL <= counters[a.ip].expires)
    BY <1>0 DEF MintInv, Covered
  <2>2. counters[a.ip].expires \in Nat
    BY <1>0, <2>1
  <2>3. \/ counters'[a.ip] = counters[a.ip]
        \/ counters[a.ip].expires <= now
    BY <2>1 DEF MintQuiet
  <2>. QED BY <1>0, <2>1, <2>2, <2>3 DEF MintQuiet
<1>3. CountBounds'
  <2>. SUFFICES ASSUME NEW ip \in Ips, NEW from \in Nat,
                       counters'[ip].expires > now', from + TTL > now'
                PROVE  Cardinality(Within(admitted', ip, from)) <= counters'[ip].count
    BY DEF CountBounds, Within
  <2>1. counters'[ip] = counters[ip]
    BY DEF MintQuiet
  <2>2. counters[ip].expires > now /\ from + TTL > now
    BY <1>0, <2>1 DEF MintQuiet
  <2>3. Cardinality(Within(admitted, ip, from)) <= counters[ip].count
    BY <2>2 DEF MintInv, CountBounds
  <2>. QED BY <2>1, <2>3 DEF MintQuiet
<1>. QED BY <1>1, <1>2, <1>3 DEF MintInv

LEMMA CountMintMint ==
  ASSUME TypeOK, MintInv, NEW r \in Recipients, CountMint(r)
  PROVE  MintInv'
<1>. DEFINE ip == IpOf[r]
            old == Counters[ip].count
            a == [by |-> r, ip |-> ip, at |-> now]
<1>0. /\ counters \in [Ips -> [count: Nat, expires: Nat]] /\ now \in Nat
      /\ TTL \in Nat \ {0} /\ RateLimit \in Nat /\ ip \in Ips
      /\ admitted \subseteq [by: Recipients, ip: Ips, at: Nat]
      /\ Counters \in [Ips -> [count: Nat, expires: Nat]]
      /\ IsFiniteSet(admitted)
  BY ClientIs, LimitsAssumption, SweptType DEF TypeOK, StoreType, HistoryType, MintInv
<1>1. /\ now' = now
      /\ counters' = [Counters EXCEPT ![ip] = [count |-> old + 1, expires |-> now + TTL]]
      /\ \/ admitted' = admitted
         \/ admitted' = admitted \cup {a} /\ old + 1 <= RateLimit
  BY DEF CountMint
<1>2. \A i \in Ips : Counters[i] = IF counters[i].expires > now THEN counters[i] ELSE NoCount
  BY <1>0 DEF Counters, Retain
<1>3. old \in Nat
  BY <1>0
<1>4. counters'[ip].count = old + 1 /\ counters'[ip].expires = now + TTL
  BY <1>0, <1>1
<1>5. ASSUME NEW i \in Ips, i # ip
      PROVE  /\ counters'[i] = IF counters[i].expires > now THEN counters[i] ELSE NoCount
             /\ \A from \in Nat : Within(admitted', i, from) = Within(admitted, i, from)
  <2>1. counters'[i] = Counters[i]
    BY <1>0, <1>1, <1>5
  <2>2. a.ip # i
    BY <1>5
  <2>3. \A from \in Nat : Within(admitted', i, from) = Within(admitted, i, from)
    BY <1>1, <2>2 DEF Within
  <2>. QED BY <1>2, <2>1, <2>3
<1>6. ASSUME NEW from \in Nat, from + TTL > now
      PROVE  Cardinality(Within(admitted, ip, from)) <= old
  <2>1. CASE counters[ip].expires > now
    <3>1. old = counters[ip].count
      BY <1>0, <1>2, <2>1
    <3>2. Cardinality(Within(admitted, ip, from)) <= counters[ip].count
      BY <1>0, <1>6, <2>1 DEF MintInv, CountBounds
    <3>. QED BY <3>1, <3>2
  <2>2. CASE ~(counters[ip].expires > now)
    <3>1. ASSUME NEW b \in admitted, b.ip = ip, from <= b.at PROVE FALSE
      <4>1. b.at \in Nat /\ counters[ip].expires \in Nat
        BY <1>0, <3>1
      <4>2. b.at + TTL <= now \/ b.at + TTL <= counters[ip].expires
        BY <3>1 DEF MintInv, Covered
      <4>. QED BY <1>0, <1>6, <2>2, <3>1, <4>1, <4>2
    <3>2. Within(admitted, ip, from) = {}
      BY <3>1 DEF Within
    <3>. QED BY <1>3, <3>2, FS_EmptySet
  <2>. QED BY <2>1, <2>2
<1>7. ASSUME NEW from \in Nat, from + TTL > now
      PROVE  Cardinality(Within(admitted', ip, from)) <= old + 1
  <2>1. /\ Cardinality(Within(admitted \cup {a}, ip, from))
             <= Cardinality(Within(admitted, ip, from)) + 1
        /\ Cardinality(Within(admitted, ip, from)) \in Nat
        /\ Cardinality(Within(admitted \cup {a}, ip, from)) \in Nat
    <3>1. IsFiniteSet(admitted \cup {a})
      BY <1>0, FS_AddElement
    <3>. HIDE DEF a
    <3>. QED BY <1>0, <3>1, WithinGrows, WithinFacts
  <2>2. Cardinality(Within(admitted, ip, from)) <= old
    BY <1>6, <1>7
  <2>3. admitted' = admitted \/ admitted' = admitted \cup {a}
    BY <1>1
  <2>. HIDE DEF a, old, ip
  <2>. QED BY <1>3, <2>1, <2>2, <2>3
<1>8. IsFiniteSet(admitted')
  <2>1. IsFiniteSet(admitted \cup {a})
    BY <1>0, FS_AddElement
  <2>. HIDE DEF a
  <2>. QED BY <1>0, <1>1, <2>1
<1>9. WindowCap'
  <2>. SUFFICES ASSUME NEW i \in Ips, NEW from \in Nat
                PROVE  Cardinality(Within(admitted', i, from)) <= RateLimit
    BY DEF WindowCap, Within
  <2>0. Cardinality(Within(admitted, i, from)) <= RateLimit
    BY DEF MintInv, WindowCap
  <2>1. CASE i # ip \/ admitted' = admitted
    BY <1>5, <2>0, <2>1
  <2>2. CASE i = ip /\ old + 1 <= RateLimit /\ from + TTL > now
    <3>1. Cardinality(Within(admitted', ip, from)) <= old + 1
      BY <1>7, <2>2
    <3>2. Cardinality(Within(admitted', ip, from)) \in Nat
      BY <1>8, WithinFacts
    <3>. HIDE DEF old, ip
    <3>. QED BY <1>0, <1>3, <2>2, <3>1, <3>2
  <2>3. CASE i = ip /\ ~(from + TTL > now) /\ admitted' = admitted \cup {a}
    <3>1. ~(a.at < from + TTL)
      BY <1>0, <2>3
    <3>2. Within(admitted', i, from) = Within(admitted, i, from)
      BY <2>3, <3>1 DEF Within
    <3>. QED BY <2>0, <3>2
  <2>. QED BY <1>1, <2>1, <2>2, <2>3
<1>10. Covered'
  <2>. SUFFICES ASSUME NEW b \in admitted'
                PROVE  /\ b.at <= now
                       /\ b.at + TTL <= now \/ b.at + TTL <= counters'[b.ip].expires
    BY <1>1 DEF Covered
  <2>1. CASE b \notin admitted
    <3>1. b.at = now /\ b.ip = ip
      BY <1>1, <2>1
    <3>. QED BY <1>0, <1>4, <3>1
  <2>2. CASE b \in admitted
    <3>1. b.ip \in Ips /\ b.at \in Nat /\ b.at <= now
          /\ (b.at + TTL <= now \/ b.at + TTL <= counters[b.ip].expires)
      BY <1>0, <2>2 DEF MintInv, Covered
    <3>2. CASE b.ip = ip
      BY <1>0, <1>4, <3>1, <3>2
    <3>3. CASE b.ip # ip
      <4>1. counters[b.ip].expires \in Nat
        BY <1>0, <3>1
      <4>2. counters[b.ip].expires > now => counters'[b.ip] = counters[b.ip]
        BY <1>5, <3>1, <3>3
      <4>. QED BY <1>0, <3>1, <4>1, <4>2
    <3>. QED BY <3>2, <3>3
  <2>. QED BY <2>1, <2>2
<1>11. CountBounds'
  <2>. SUFFICES ASSUME NEW i \in Ips, NEW from \in Nat,
                       counters'[i].expires > now, from + TTL > now
                PROVE  Cardinality(Within(admitted', i, from)) <= counters'[i].count
    BY <1>1 DEF CountBounds, Within
  <2>1. CASE i = ip
    BY <1>4, <1>7, <2>1
  <2>2. CASE i # ip
    <3>1. counters[i].expires > now /\ counters'[i] = counters[i]
      BY <1>0, <1>5, <2>2 DEF NoCount
    <3>2. Cardinality(Within(admitted, i, from)) <= counters[i].count
      BY <3>1 DEF MintInv, CountBounds
    <3>. QED BY <1>5, <2>2, <3>1, <3>2
  <2>. QED BY <2>1, <2>2
<1>. QED BY <1>8, <1>9, <1>10, <1>11 DEF MintInv

LEMMA NothingWithin ==
  ASSUME NEW ip, NEW from
  PROVE  Within({}, ip, from) = {} /\ Cardinality(Within({}, ip, from)) = 0 /\ IsFiniteSet({})
BY FS_EmptySet DEF Within

LEMMA RestartMint ==
  ASSUME TypeOK, Restart
  PROVE  MintInv'
<1>1. admitted' = {} /\ now' = now /\ now \in Nat
      /\ \A ip \in Ips : counters'[ip].expires = 0
  BY DEF TypeOK, Restart, NoCount
<1>2. IsFiniteSet(admitted') /\ WindowCap' /\ Covered'
  BY <1>1, NothingWithin, LimitsAssumption DEF WindowCap, Covered
<1>3. CountBounds'
  BY <1>1 DEF CountBounds
<1>. QED BY <1>2, <1>3 DEF MintInv

\* In every window of TTL seconds at most RateLimit mints of one address pass,
\* for any limit, TTL and timing: moving the counter's expiry with every hit
\* never lets a full counter run out early.
THEOREM MintsCapped == Spec => []MintCap
<1>1. Init => MintInv
  BY NothingWithin, LimitsAssumption
     DEF Init, MintInv, WindowCap, Covered, CountBounds, NoCount
<1>2. TypeOK /\ MintInv /\ [Next]_vars => MintInv'
  BY MintEffects, QuietMint, CountMintMint, RestartMint
<1>3. TypeOK /\ MintInv => MintCap
  BY DEF TypeOK, MintInv, WindowCap, MintCap
<1>. QED BY <1>1, <1>2, <1>3, TypeCorrect, PTL DEF Spec
=============================================================================
