------------------------------ MODULE Rendezvous ------------------------------
(***************************************************************************)
(* Sharing a note through the rendezvous backend: the four HTTP handlers   *)
(* and the in-memory store (apps/share-backend), the recipient's dialog    *)
(* with prepareReceive and pollAndDecrypt, and the sender's with sendShare *)
(* (packages/share-client, apps/web/src/share).                            *)
(*                                                                         *)
(* A recipient is one opening of the receive dialog; its ephemeral key     *)
(* pair is named after it and CodeOf maps the public key to the pickup     *)
(* code, two keys with one code being the collisions the backend guards    *)
(* against.  A sender is one submission of the send dialog.  Each client   *)
(* has at most one HTTP call at a time.  The server works on it in the     *)
(* sections its mutex makes atomic: minting and uploading take two.  A     *)
(* client that has given up leaves its call behind, and the server may     *)
(* still serve it.                                                         *)
(*                                                                         *)
(* A value is "absent" from a map of the store when its expiry is 0.       *)
(***************************************************************************)
EXTENDS Naturals, FiniteSets

CONSTANTS
  Recipients, Senders, Codes, Ips,
  NoKey,        \* not a recipient
  NoNote,       \* not a sender
  CodeOf,       \* code_for_pubkey
  IpOf,         \* client_ip of a recipient's requests
  TooLarge,     \* senders whose note exceeds MAX_BLOB_BYTES
  TTL,          \* RENDEZVOUS_TTL_SECONDS, and the poll timeout
  RateLimit,    \* MINT_RATE_LIMIT
  Ahead,        \* how far the recipients' clocks run ahead of the server's
  MaxTime,      \* bound: the server's clock stops here
  MaxRestarts   \* bound: restarts of the backend

ASSUME ClientsAssumption ==
  /\ NoKey \notin Recipients
  /\ NoNote \notin Senders
  /\ Recipients \cap Senders = {}
  /\ CodeOf \in [Recipients -> Codes]
  /\ IpOf \in [Recipients -> Ips]
  /\ TooLarge \subseteq Senders
ASSUME LimitsAssumption ==
  /\ TTL \in Nat \ {0} /\ RateLimit \in Nat /\ Ahead \in Nat
  /\ MaxTime \in Nat /\ MaxRestarts \in Nat

VARIABLES
  now,        \* the server's clock
  records,    \* Inner.records
  blobs,      \* Inner.blobs
  counters,   \* Inner.counters
  call,       \* the HTTP call of each client
  recv,       \* where the recipient's task is
  mounted,    \* the receive dialog is on screen
  deadline,   \* when pollAndDecrypt gives up, by the recipient's clock
  frees,      \* how often the RecipientHandle was freed
  saved,      \* the note that was written to the recipient's Repo
  send,       \* where the sender's task is
  typed,      \* the code the sender entered
  sealedFor,  \* the key the sender encrypted to
  admitted,   \* history: mints that passed the rate limit since the last restart
  accepted,   \* history: uploads answered with 204
  handed,     \* history: how often an upload was handed out
  restarts

store == <<records, blobs, counters>>
recipientVars == <<recv, mounted, deadline, frees, saved>>
senderVars == <<send, typed, sealedFor>>
blobHistory == <<accepted, handed>>
vars == <<now, store, call, recipientVars, senderVars, admitted, blobHistory, restarts>>

Clients == Recipients \cup Senders
Keys == Recipients \cup {NoKey}
Notes == Senders \cup {NoNote}

Absent == [key |-> NoKey, expires |-> 0]
NoBlob == [key |-> NoKey, note |-> NoNote, expires |-> 0]
NoCount == [count |-> 0, expires |-> 0]

-----------------------------------------------------------------------------
(* HTTP calls.                                                             *)

NoCall == [op |-> "none", stage |-> "none", status |-> "none",
           key |-> NoKey, note |-> NoNote, expires |-> 0]
Ask(op) == [NoCall EXCEPT !.op = op, !.stage = "sent"]

Waits(x, op, stage) == call[x].op = op /\ call[x].stage = stage

Fail(x, status) == [call EXCEPT ![x] = [@ EXCEPT !.stage = "answered", !.status = status]]
Hold(x, e) == [call EXCEPT ![x] = [@ EXCEPT !.stage = "held", !.expires = e]]
Answer(x, k, n, e) ==
  [call EXCEPT ![x] = [@ EXCEPT !.stage = "answered", !.status = "ok",
                                !.key = k, !.note = n, !.expires = e]]

-----------------------------------------------------------------------------
(* The backend.                                                            *)

\* Mutant: an entry is evicted a second early.
RetainEarly(map, absent) ==
  [k \in DOMAIN map |-> IF map[k].expires > now + 1 THEN map[k] ELSE absent]
\* retain_unexpired; every writing operation sweeps all three maps first.
Retain(map, absent) ==
  [k \in DOMAIN map |-> IF map[k].expires > now THEN map[k] ELSE absent]
Records == Retain(records, Absent)
Blobs == Retain(blobs, NoBlob)
Counters == Retain(counters, NoCount)

\* mint_rendezvous up to the rate limit: increment_mint_counter.
CountMint(r) ==
  LET ip == IpOf[r]
      n == Counters[ip].count + 1
  IN  /\ Waits(r, "mint", "sent")
      /\ records' = Records
      /\ blobs' = Blobs
      /\ counters' = [Counters EXCEPT ![ip] = [count |-> n, expires |-> now + TTL]]
      /\ \/ /\ n <= RateLimit
            /\ call' = Hold(r, 0)
            /\ admitted' = admitted \cup {[by |-> r, ip |-> ip, at |-> now]}
         \/ /\ n > RateLimit
            /\ call' = Fail(r, "limited")
            /\ UNCHANGED admitted
      /\ UNCHANGED <<now, recipientVars, senderVars, blobHistory, restarts>>

\* The rest of mint_rendezvous: put_rendezvous, which refuses a taken code.
PutMint(r) ==
  LET c == CodeOf[r]
      fresh == [key |-> r, expires |-> now + TTL]
  IN  /\ Waits(r, "mint", "held")
      /\ blobs' = Blobs
      /\ counters' = Counters
      /\ \/ /\ Records[c].expires # 0
            /\ records' = Records
            /\ call' = Fail(r, "conflict")
         \/ /\ Records[c].expires = 0
            /\ records' = [Records EXCEPT ![c] = fresh]
            /\ call' = Answer(r, NoKey, NoNote, now + TTL)
      /\ UNCHANGED <<now, recipientVars, senderVars, admitted, blobHistory, restarts>>

\* Missing, expired, or there.
Status(rec) ==
  IF rec.expires = 0 THEN "notFound" ELSE IF rec.expires <= now THEN "gone" ELSE "ok"

\* fetch_rendezvous
Fetch(s) ==
  LET rec == records[typed[s]]
  IN  /\ Waits(s, "fetch", "sent")
      /\ call' = IF Status(rec) = "ok" THEN Answer(s, rec.key, NoNote, 0)
                 ELSE Fail(s, Status(rec))
      /\ UNCHANGED <<now, store, recipientVars, senderVars, admitted, blobHistory, restarts>>

Larger(a, b) == IF a > b THEN a ELSE b

\* Mutant: the blob gets a lifetime of its own.
BlobExpiryFresh(rec) == now + TTL
\* Blob expiry: the rendezvous's, but at least one second from now.
BlobExpiry(rec) == Larger(rec.expires, now + 1)

\* upload_blob up to put_blob: look up the rendezvous, check the body.
CheckUpload(s) ==
  LET rec == records[typed[s]]
  IN  /\ Waits(s, "upload", "sent")
      /\ \/ Status(rec) # "ok" /\ call' = Fail(s, Status(rec))
         \/ Status(rec) = "ok" /\ s \in TooLarge /\ call' = Fail(s, "tooLarge")
         \/ Status(rec) = "ok" /\ s \notin TooLarge /\ call' = Hold(s, BlobExpiry(rec))
      /\ UNCHANGED <<now, store, recipientVars, senderVars, admitted, blobHistory, restarts>>

\* put_blob: insert if absent.
PutBlob(s) ==
  LET c == typed[s]
      blob == [key |-> sealedFor[s], note |-> s, expires |-> call[s].expires]
  IN  /\ Waits(s, "upload", "held")
      /\ records' = Records
      /\ counters' = Counters
      /\ \/ /\ Blobs[c].expires # 0
            /\ blobs' = Blobs
            /\ call' = Fail(s, "conflict")
            /\ UNCHANGED accepted
         \/ /\ Blobs[c].expires = 0
            /\ blobs' = [Blobs EXCEPT ![c] = blob]
            /\ call' = Answer(s, NoKey, NoNote, 0)
            /\ accepted' = accepted \cup {s}
      /\ UNCHANGED <<now, recipientVars, senderVars, admitted, handed, restarts>>

\* Mutant: a blob is read without being deleted.
AfterTakeKept(c) == blobs
\* take_blob removes the blob whether it hands it out or finds it expired.
AfterTake(c) == [blobs EXCEPT ![c] = NoBlob]

\* download_blob
Download(r) ==
  LET b == blobs[CodeOf[r]]
  IN  /\ Waits(r, "download", "sent")
      /\ blobs' = AfterTake(CodeOf[r])
      /\ \/ /\ b.expires <= now
            /\ call' = Fail(r, "notFound")
            /\ UNCHANGED handed
         \/ /\ b.expires > now
            /\ call' = Answer(r, b.key, b.note, 0)
            /\ handed' = [handed EXCEPT ![b.note] = @ + 1]
      /\ UNCHANGED <<now, records, counters, recipientVars, senderVars, admitted,
                     accepted, restarts>>

\* The single replica restarts: its memory and the calls it works on go.
Restart ==
  /\ restarts < MaxRestarts
  /\ restarts' = restarts + 1
  /\ records' = [c \in Codes |-> Absent]
  /\ blobs' = [c \in Codes |-> NoBlob]
  /\ counters' = [i \in Ips |-> NoCount]
  /\ call' = [x \in Clients |-> IF call[x].stage = "held" THEN NoCall ELSE call[x]]
  /\ admitted' = {}
  /\ UNCHANGED <<now, recipientVars, senderVars, blobHistory>>

\* Time passes.  A session that is being minted ends within the bound.
Tick ==
  /\ now < MaxTime
  /\ \A r \in Recipients : call[r].op = "mint" /\ call[r].stage # "answered" => now + TTL < MaxTime
  /\ now' = now + 1
  /\ UNCHANGED <<store, call, recipientVars, senderVars, admitted, blobHistory, restarts>>

-----------------------------------------------------------------------------
(* The recipient: ReceiveShareDialog, prepareReceive, pollAndDecrypt.      *)

Smaller(a, b) == IF a < b THEN a ELSE b
Ended == {"received", "error", "gone"}
Unsettled(r) == recv[r] \notin Ended \cup {"idle"}

\* Mutant: an error after closing leaves a state the dialog does not have.
OutcomeUnknown(r) == IF mounted[r] THEN "error" ELSE "closed"
\* The dialog shows an error, unless it has been closed.
Outcome(r) == IF mounted[r] THEN "error" ELSE "gone"
Free(r) == [frees EXCEPT ![r] = @ + 1]

\* The task ends early and frees the handle on its way out.
GiveUp(r) ==
  /\ recv' = [recv EXCEPT ![r] = Outcome(r)]
  /\ frees' = Free(r)

\* The dialog mounts: prepareReceive makes a key pair and asks for a mint.
OpenDialog(r) ==
  /\ recv[r] = "idle"
  /\ now + TTL <= MaxTime
  /\ recv' = [recv EXCEPT ![r] = "minting"]
  /\ mounted' = [mounted EXCEPT ![r] = TRUE]
  /\ call' = [call EXCEPT ![r] = Ask("mint")]
  /\ UNCHANGED <<now, store, deadline, frees, saved, senderVars, admitted,
                 blobHistory, restarts>>

\* A minted session starts polling; a failed mint frees the handle.
MintAnswered(r) ==
  /\ recv[r] = "minting"
  /\ Waits(r, "mint", "answered")
  /\ \/ /\ call[r].status = "ok"
        /\ recv' = [recv EXCEPT ![r] = "polling"]
        /\ deadline' = [deadline EXCEPT ![r] = Smaller(now + Ahead + TTL, call[r].expires)]
        /\ call' = [call EXCEPT ![r] = Ask("download")]
        /\ UNCHANGED frees
     \/ /\ call[r].status # "ok"
        /\ GiveUp(r)
        /\ UNCHANGED <<call, deadline>>
  /\ UNCHANGED <<now, store, mounted, saved, senderVars, admitted, blobHistory, restarts>>

\* Mutant: any blob opens.
OpensAny(r, key) == TRUE
\* openSealedBlob: the handle opens what was sealed for its own key.
Opens(r, key) == key = r

\* Mutant: the loop never gives up.
PatienceEndless(r) == FALSE
\* The deadline of pollAndDecrypt has passed by the recipient's clock.
PatienceOver(r) == now + Ahead >= deadline[r]

\* tryDownloadBlob returned: open the blob, or sleep unless it is too late.
PollAnswered(r) ==
  /\ recv[r] = "polling"
  /\ Waits(r, "download", "answered")
  /\ \/ /\ call[r].status = "ok" /\ Opens(r, call[r].key) /\ mounted[r]
        /\ recv' = [recv EXCEPT ![r] = "saving"]
        /\ frees' = Free(r)
     \/ /\ call[r].status = "ok" /\ (Opens(r, call[r].key) => ~mounted[r])
        /\ GiveUp(r)
     \/ /\ call[r].status # "ok" /\ PatienceOver(r)
        /\ GiveUp(r)
     \/ /\ call[r].status # "ok" /\ ~PatienceOver(r)
        /\ recv' = [recv EXCEPT ![r] = "asleep"]
        /\ UNCHANGED frees
  /\ UNCHANGED <<now, store, call, mounted, deadline, saved, senderVars, admitted,
                 blobHistory, restarts>>

\* The poll interval is over.
Wake(r) ==
  /\ recv[r] = "asleep"
  /\ \/ /\ mounted[r]
        /\ recv' = [recv EXCEPT ![r] = "polling"]
        /\ call' = [call EXCEPT ![r] = Ask("download")]
        /\ UNCHANGED frees
     \/ /\ ~mounted[r]
        /\ GiveUp(r)
        /\ UNCHANGED call
  /\ UNCHANGED <<now, store, mounted, deadline, saved, senderVars, admitted,
                 blobHistory, restarts>>

\* The connection breaks: fetch rejects, the server may go on serving.
ReceiveLost(r) ==
  /\ recv[r] \in {"minting", "polling"}
  /\ GiveUp(r)
  /\ UNCHANGED <<now, store, call, mounted, deadline, saved, senderVars, admitted,
                 blobHistory, restarts>>

\* Mutant: the clean-up frees the handle whatever the task is doing.
CloseDialogFrees(r) ==
  /\ mounted[r] /\ Unsettled(r)
  /\ mounted' = [mounted EXCEPT ![r] = FALSE]
  /\ recv' = [recv EXCEPT ![r] = IF @ \in {"minting", "asleep"} THEN "gone" ELSE @]
  /\ frees' = Free(r)
  /\ UNCHANGED <<now, store, call, deadline, saved, senderVars, admitted,
                 blobHistory, restarts>>
\* The dialog unmounts and aborts: a mint and a sleep reject at once, a
\* download has no signal and a save cannot be stopped.
CloseDialog(r) ==
  /\ mounted[r] /\ Unsettled(r)
  /\ mounted' = [mounted EXCEPT ![r] = FALSE]
  /\ \/ /\ recv[r] \in {"minting", "asleep"}
        /\ recv' = [recv EXCEPT ![r] = "gone"]
        /\ frees' = Free(r)
     \/ /\ recv[r] \in {"polling", "saving"}
        /\ UNCHANGED <<recv, frees>>
  /\ UNCHANGED <<now, store, call, deadline, saved, senderVars, admitted,
                 blobHistory, restarts>>

\* repo.upsertNote settles.
Save(r) ==
  /\ recv[r] = "saving"
  /\ \/ /\ saved' = [saved EXCEPT ![r] = call[r].note]
        /\ recv' = [recv EXCEPT ![r] = IF mounted[r] THEN "received" ELSE "gone"]
     \/ /\ recv' = [recv EXCEPT ![r] = Outcome(r)]
        /\ UNCHANGED saved
  /\ UNCHANGED <<now, store, call, mounted, deadline, frees, senderVars, admitted,
                 blobHistory, restarts>>

-----------------------------------------------------------------------------
(* The sender: SendShareDialog and sendShare.                              *)

Submit(s) ==
  /\ send[s] = "idle"
  /\ send' = [send EXCEPT ![s] = "fetching"]
  /\ call' = [call EXCEPT ![s] = Ask("fetch")]
  /\ UNCHANGED <<now, store, recipientVars, typed, sealedFor, admitted, blobHistory,
                 restarts>>

verifyCode(c, key) == CodeOf[key] = c

\* The key arrived: verify the commitment, seal, upload.
FetchAnswered(s) ==
  LET good == call[s].status = "ok" /\ verifyCode(typed[s], call[s].key)
  IN  /\ send[s] = "fetching"
      /\ Waits(s, "fetch", "answered")
      /\ \/ /\ good
            /\ send' = [send EXCEPT ![s] = "uploading"]
            /\ sealedFor' = [sealedFor EXCEPT ![s] = call[s].key]
            /\ call' = [call EXCEPT ![s] = Ask("upload")]
         \/ /\ ~good
            /\ send' = [send EXCEPT ![s] = "error"]
            /\ UNCHANGED <<sealedFor, call>>
      /\ UNCHANGED <<now, store, recipientVars, typed, admitted, blobHistory, restarts>>

UploadAnswered(s) ==
  /\ send[s] = "uploading"
  /\ Waits(s, "upload", "answered")
  /\ send' = [send EXCEPT ![s] = IF call[s].status = "ok" THEN "sent" ELSE "error"]
  /\ UNCHANGED <<now, store, call, recipientVars, typed, sealedFor, admitted,
                 blobHistory, restarts>>

SendLost(s) ==
  /\ send[s] \in {"fetching", "uploading"}
  /\ send' = [send EXCEPT ![s] = "error"]
  /\ UNCHANGED <<now, store, call, recipientVars, typed, sealedFor, admitted,
                 blobHistory, restarts>>

-----------------------------------------------------------------------------
Init ==
  /\ now = 0
  /\ records = [c \in Codes |-> Absent]
  /\ blobs = [c \in Codes |-> NoBlob]
  /\ counters = [i \in Ips |-> NoCount]
  /\ call = [x \in Clients |-> NoCall]
  /\ recv = [r \in Recipients |-> "idle"]
  /\ mounted = [r \in Recipients |-> FALSE]
  /\ deadline = [r \in Recipients |-> 0]
  /\ frees = [r \in Recipients |-> 0]
  /\ saved = [r \in Recipients |-> NoNote]
  /\ send = [s \in Senders |-> "idle"]
  /\ typed \in [Senders -> Codes]
  /\ sealedFor = [s \in Senders |-> NoKey]
  /\ admitted = {}
  /\ accepted = {}
  /\ handed = [s \in Senders |-> 0]
  /\ restarts = 0

ServeRecipient(r) == CountMint(r) \/ PutMint(r) \/ Download(r)
ServeSender(s) == Fetch(s) \/ CheckUpload(s) \/ PutBlob(s)
RecipientStep(r) == MintAnswered(r) \/ PollAnswered(r) \/ Wake(r) \/ Save(r)
SenderStep(s) == FetchAnswered(s) \/ UploadAnswered(s)

Next ==
  \/ \E r \in Recipients :
       ServeRecipient(r) \/ RecipientStep(r) \/ OpenDialog(r) \/ CloseDialog(r) \/ ReceiveLost(r)
  \/ \E s \in Senders : ServeSender(s) \/ SenderStep(s) \/ Submit(s) \/ SendLost(s)
  \/ Restart
  \/ Tick

Spec == Init /\ [][Next]_vars

\* The server serves what reaches it, clients handle what they are told and
\* notice a connection the server has dropped, timers fire and time passes.
Fairness ==
  /\ WF_vars(Tick)
  /\ \A r \in Recipients :
       /\ WF_vars(ServeRecipient(r)) /\ WF_vars(RecipientStep(r))
       /\ WF_vars(call[r].stage = "none" /\ ReceiveLost(r))
  /\ \A s \in Senders :
       /\ WF_vars(ServeSender(s)) /\ WF_vars(SenderStep(s))
       /\ WF_vars(call[s].stage = "none" /\ SendLost(s))

FairSpec == Spec /\ Fairness

-----------------------------------------------------------------------------
(* Properties.                                                             *)

Statuses == {"none", "ok", "notFound", "gone", "conflict", "limited", "tooLarge"}
StoreType ==
  /\ records \in [Codes -> [key: Keys, expires: Nat]]
  /\ blobs \in [Codes -> [key: Keys, note: Notes, expires: Nat]]
  /\ counters \in [Ips -> [count: Nat, expires: Nat]]
CallType ==
  call \in [Clients -> [op: {"none", "mint", "download", "fetch", "upload"},
                        stage: {"none", "sent", "held", "answered"},
                        status: Statuses, key: Keys, note: Notes, expires: Nat]]
RecipientType ==
  /\ recv \in [Recipients -> {"idle", "minting", "polling", "asleep", "saving"} \cup Ended]
  /\ mounted \in [Recipients -> BOOLEAN]
  /\ deadline \in [Recipients -> Nat]
  /\ frees \in [Recipients -> Nat]
  /\ saved \in [Recipients -> Notes]
SenderType ==
  /\ send \in [Senders -> {"idle", "fetching", "uploading", "sent", "error"}]
  /\ typed \in [Senders -> Codes]
  /\ sealedFor \in [Senders -> Keys]
HistoryType ==
  /\ admitted \subseteq [by: Recipients, ip: Ips, at: Nat]
  /\ accepted \subseteq Senders
  /\ handed \in [Senders -> Nat]

\* Every variable holds a value of its type, whatever a restart or an
\* abandoned call leaves behind.
TypeOK ==
  /\ now \in Nat /\ restarts \in Nat
  /\ StoreType /\ CallType /\ RecipientType /\ SenderType /\ HistoryType

\* A blob that can still be picked up belongs to a rendezvous that is still
\* open: upload_blob reads the record and stages the blob in two critical
\* sections, and a sweep, a restart or another mint of the same code may
\* come between them.
BlobWithRendezvous ==
  \A c \in Codes :
    blobs[c].expires > now => records[c].expires = blobs[c].expires

\* A blob is handed out at most once, and only if its upload was accepted,
\* however polls, abandoned polls and sweeps interleave.
HandedOutOnce ==
  \A s \in Senders : handed[s] <= 1 /\ (handed[s] = 1 => s \in accepted)

\* A note ends up only with the recipient it was encrypted to, which is the
\* one whose code its sender typed, even when two recipients share a code.
AddresseeOnly ==
  \A r \in Recipients : saved[r] # NoNote =>
    sealedFor[saved[r]] = r /\ typed[saved[r]] = CodeOf[r]

\* The wasm handle is freed exactly once on every way out of the dialog, and
\* not while pollAndDecrypt may still use it.
HandleFreedOnce ==
  \A r \in Recipients :
    frees[r] = IF recv[r] \in Ended \cup {"saving"} THEN 1 ELSE 0

\* The events of S from one address in the window that starts at `from'.
Within(S, ip, from) == {a \in S : a.ip = ip /\ from <= a.at /\ a.at < from + TTL}

\* MINT_RATE_LIMIT: in any window as long as the TTL at most RateLimit mints
\* of one address pass, although every hit moves the counter's expiry.
MintCap ==
  \A ip \in Ips : \A from \in 0 .. now : Cardinality(Within(admitted, ip, from)) <= RateLimit

\* A dialog that was opened comes to an end: the mint and every poll are
\* answered or fail, and the loop stops at its deadline.
ReceiveEnds ==
  \A r \in Recipients : recv[r] = "minting" ~> recv[r] \in Ended
=============================================================================
