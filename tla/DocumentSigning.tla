---------------------------- MODULE DocumentSigning ----------------------------
(***************************************************************************)
(* Requests of the task service at work on one task and its document: the  *)
(* data is updated, a PDF is made of it (at once or through a queue), the  *)
(* signers sign the PDF one after the other, signatures are deleted, the   *)
(* task is committed.  Every await lets other requests, of this replica or *)
(* of another one, take a step; no transaction spans two of them.          *)
(*                                                                         *)
(* The template asks for a PDF and for signatures, and keeps the order of  *)
(* the signers (isKeepSignersOrder).  Left out is what is only shown to    *)
(* users: rejections, multiSignInfo, file names, the text of letters; and  *)
(* the attachments a system task writes into the data without dropping the *)
(* PDF (isKeepDocumentFile).                                               *)
(***************************************************************************)
EXTENDS Integers, Sequences, FiniteSets

CONSTANTS
  Requests,      \* each is one request of its life
  Users,
  Performer,     \* whose task it is
  SignerLists,   \* what the signers may be set to
  MinPercent,    \* minSignaturesLimit of the template, 0 if it has none
  MaxStops       \* bound on requests that stop half way

ASSUME SigningAssumption ==
  /\ Performer \in Users
  /\ IsFiniteSet(Users)
  /\ SignerLists \subseteq Seq(Users)
  /\ MinPercent \in Nat
  /\ MaxStops \in Nat

VARIABLES
  document,    \* data, PDF and status of the document
  signatures,  \* rows of document_signatures in the order of created_at: who has
               \* signed, which PDF and what data
  task,        \* signers and status of the task
  generating,  \* key generating-pdf-document-<id> in Redis
  request,
  sent,        \* requests that have sent the message that the task is done
  files,       \* number of PDFs uploaded
  stops,       \* number of requests that stopped half way
  history      \* what has happened that some properties exclude

vars == <<document, signatures, task, generating, request, sent, files, stops, history>>

\* The data is known by the updates it contains, a file by its number.
Data == SUBSET Requests
File == [id : Nat, data : Data]
NoFile == [id |-> -1, data |-> {}]
Generating == [id |-> -2, data |-> {}]   \* file_id = 'generating'
IsFile(f) == f \notin {NoFile, Generating}

Edits   == {"unsigned", "write", "mark", "queue", "queued", "pdf", "store", "attach", "ack"}
Signs   == {"order", "file", "insert", "recheck", "reset"}
Commits == {"task", "check", "finish", "final", "setfinal", "send"}
\* "unchecked": a sign request stopped before its second check had its effect.
Phases  == {"new", "done", "delete", "unchecked"} \cup Edits \cup Signs \cup Commits

Request ==
  [pc      : Phases,
   user    : Users,
   commit  : BOOLEAN,      \* ?commit=true
   large   : BOOLEAN,      \* ?large_file
   signers : Seq(Users),   \* what it has read
   data    : Data,
   file    : Nat]
NoRequest == [pc |-> "new", user |-> Performer, commit |-> FALSE, large |-> FALSE,
              signers |-> <<>>, data |-> {}, file |-> 0]

AtWork(r) == request[r].pc \notin {"new", "done", "unchecked"}
At(r, pc) == request[r].pc = pc
Becomes(r, new) == request' = [request EXCEPT ![r] = new]
GoTo(r, pc) == Becomes(r, [request[r] EXCEPT !.pc = pc])
Stop(r, pc) == Becomes(r, [NoRequest EXCEPT !.pc = pc])
Over(r) == Stop(r, "done")
Begin(r, new) == At(r, "new") /\ Becomes(r, new)

\* The document is new, or a request before these has made a PDF.
Init ==
  /\ document \in [data : {{}}, final : {FALSE}, file : {NoFile, [id |-> 0, data |-> {}]}]
  /\ signatures = <<>>
  /\ task = [signers |-> <<>>, finished |-> FALSE]
  /\ generating = FALSE
  /\ request = [r \in Requests |-> NoRequest]
  /\ sent = {}
  /\ files = 0 /\ stops = 0
  /\ history = {}

\* An update or a PDF is under way while another request is, too.
Noted(what, happened) == history' = history \cup (IF happened THEN {what} ELSE {})
NoteEdit == Noted("overlap", \E q \in Requests : AtWork(q))
NoteOther == Noted("overlap", \E q \in Requests : request[q].pc \in Edits)

\* Signatures go while a commit that has counted them goes on.
NoteWithdrawal ==
  Noted("withdrawn", signatures # <<>> /\ (task.finished \/ \E q \in Requests : At(q, "finish")))

--------------------------------------------------------------------------------
(* PUT /documents/:id *)

ReadForUpdate(r) ==
  /\ ~document.final
  /\ Begin(r, [NoRequest EXCEPT !.pc = "unsigned", !.data = document.data])
  /\ NoteEdit
  /\ UNCHANGED <<document, signatures, task, generating, sent, files, stops>>

\* "Can't update - document contains signatures."
CheckUnsigned(r) ==
  /\ At(r, "unsigned")
  /\ IF signatures = <<>> THEN GoTo(r, "write") ELSE Over(r)
  /\ UNCHANGED <<document, signatures, task, generating, sent, files, stops, history>>

UpdateData(r) ==
  /\ At(r, "write")
  /\ document' = [document EXCEPT !.data = request[r].data \cup {r}, !.file = NoFile]
  /\ Over(r)
  /\ UNCHANGED <<signatures, task, generating, sent, files, stops, history>>

--------------------------------------------------------------------------------
(* POST /documents/:id/pdf; a large file is made by whoever consumes the queue *)

\* createLargePdf does not look whether the document is final.
ReadForPdf(r, large) ==
  /\ ~document.final \/ large
  /\ ~(large /\ document.file = Generating /\ generating)
  /\ Begin(r, [NoRequest EXCEPT !.pc = IF large THEN "mark" ELSE "pdf", !.large = large,
                                !.data = document.data, !.signers = task.signers])
  /\ NoteEdit
  /\ UNCHANGED <<document, signatures, task, generating, sent, files, stops>>

MarkGenerating(r) ==
  /\ At(r, "mark")
  /\ document' = [document EXCEPT !.file = Generating]
  /\ GoTo(r, "queue")
  /\ UNCHANGED <<signatures, task, generating, sent, files, stops, history>>

QueuePdf(r) ==
  /\ At(r, "queue")
  /\ generating' = TRUE
  /\ GoTo(r, "queued")
  /\ UNCHANGED <<document, signatures, task, sent, files, stops, history>>

\* The document is read again; whether it is final is not looked at.
TakePdfMessage(r) ==
  /\ At(r, "queued")
  /\ Becomes(r, [request[r] EXCEPT !.pc = "pdf", !.data = document.data,
                                   !.signers = task.signers])
  /\ UNCHANGED <<document, signatures, task, generating, sent, files, stops, history>>

DeleteByDocumentId == signatures' = <<>> /\ NoteWithdrawal

\* mutant: the signatures stay
WithdrawNone(r) == UNCHANGED <<signatures, history>>

\* Where there are signers, a new PDF withdraws what they have signed.
Withdraw(r) ==
  IF request[r].signers = <<>> THEN UNCHANGED <<signatures, history>> ELSE DeleteByDocumentId

\* The PDF is made and uploaded.
CreatePdf(r) ==
  /\ At(r, "pdf")
  /\ files' = files + 1
  /\ Withdraw(r)
  /\ Becomes(r, [request[r] EXCEPT !.pc = "store", !.file = files + 1])
  /\ UNCHANGED <<document, task, generating, sent, stops>>

AddDocumentFile(r) ==
  /\ At(r, "store")
  /\ document' = [document EXCEPT !.file = [id |-> request[r].file, data |-> request[r].data]]
  /\ IF request[r].large THEN GoTo(r, "attach") ELSE Over(r)
  /\ UNCHANGED <<signatures, task, generating, sent, files, stops, history>>

PdfMessageDone(r) ==
  /\ request[r].pc \in {"attach", "ack"}
  /\ generating' = FALSE
  /\ Over(r)
  /\ UNCHANGED <<document, signatures, task, sent, files, stops, history>>

\* An exception in the consumer, also of the attachments that are saved after
\* the PDF: the state "generating" is taken back.
PdfMessageFails(r) ==
  /\ request[r].pc \in {"pdf", "store", "attach"} /\ request[r].large /\ stops < MaxStops
  /\ stops' = stops + 1
  /\ document' = [document EXCEPT !.file = NoFile]
  /\ GoTo(r, "ack")
  /\ UNCHANGED <<signatures, task, generating, sent, files, history>>

\* The consumer dies before it acknowledges the message.
PdfMessageReturns(r) ==
  /\ request[r].pc \in {"pdf", "store", "attach", "ack"} /\ request[r].large /\ stops < MaxStops
  /\ stops' = stops + 1
  /\ GoTo(r, "queued")
  /\ UNCHANGED <<document, signatures, task, generating, sent, files, history>>

--------------------------------------------------------------------------------
(* POST /documents/:id/sign *)

\* checkSignersOrderAndGetNextSigner, for the signers the request has read.
WrongOrder(signers) ==
  \E i \in DOMAIN signers \cap DOMAIN signatures : signatures[i].by # signers[i]
AllSigned(signers) == Len(signatures) >= Len(signers)
NextSigner(signers) == signers[Len(signatures) + 1]

ReadForSign(r, user, commit) ==
  /\ Begin(r, [NoRequest EXCEPT !.pc = "order", !.user = user, !.commit = commit,
                                !.signers = task.signers])
  /\ NoteOther
  /\ UNCHANGED <<document, signatures, task, generating, sent, files, stops>>

MaySign(user, signers) ==
  signers = <<>> \/ (~WrongOrder(signers) /\ (AllSigned(signers) \/ NextSigner(signers) = user))

CheckTurn(r) ==
  /\ At(r, "order")
  /\ IF MaySign(request[r].user, request[r].signers) THEN GoTo(r, "file") ELSE Over(r)
  /\ UNCHANGED <<document, signatures, task, generating, sent, files, stops, history>>

\* The signature sent along is compared with the PDF of this moment.
GetDataForSign(r) ==
  /\ At(r, "file")
  /\ IF IsFile(document.file)
       THEN Becomes(r, [request[r] EXCEPT !.pc = "insert", !.file = document.file.id,
                                          !.data = document.file.data])
       ELSE Over(r)
  /\ UNCHANGED <<document, signatures, task, generating, sent, files, stops, history>>

CreateSignature(r) ==
  /\ At(r, "insert")
  /\ signatures' = Append(signatures, [by |-> request[r].user, file |-> request[r].file,
                                        data |-> request[r].data])
  /\ GoTo(r, "recheck")
  /\ UNCHANGED <<document, task, generating, sent, files, stops, history>>

AfterSign(r) == IF request[r].commit THEN GoTo(r, "task") ELSE Over(r)

\* mutant: only the check before the signature
RecheckSkipped(r) ==
  /\ At(r, "recheck")
  /\ AfterSign(r)
  /\ UNCHANGED <<document, signatures, task, generating, sent, files, stops, history>>

Recheck(r) ==
  /\ At(r, "recheck")
  /\ request[r].signers = <<>> \/ ~WrongOrder(request[r].signers)
  /\ AfterSign(r)
  /\ UNCHANGED <<document, signatures, task, generating, sent, files, stops, history>>

\* The order is wrong, or reading the template or sending a letter has failed.
RecheckFails(r) ==
  /\ At(r, "recheck")
  /\ request[r].signers # <<>>
  /\ GoTo(r, "reset")
  /\ UNCHANGED <<document, signatures, task, generating, sent, files, stops, history>>

\* "Reset signs from document.", those of the others as well.
ResetSignatures(r) ==
  /\ At(r, "reset")
  /\ DeleteByDocumentId
  /\ Over(r)
  /\ UNCHANGED <<document, task, generating, sent, files, stops>>

--------------------------------------------------------------------------------
(* DELETE /documents/:id/sign, and the endpoints that set the signers *)

ReadForDelete(r) ==
  /\ ~document.final
  /\ Begin(r, [NoRequest EXCEPT !.pc = "delete"])
  /\ NoteOther
  /\ UNCHANGED <<document, signatures, task, generating, sent, files, stops>>

DeleteDocumentSigns(r) ==
  /\ At(r, "delete")
  /\ DeleteByDocumentId
  /\ Over(r)
  /\ UNCHANGED <<document, task, generating, sent, files, stops>>

\* Neither signatures nor the status of the task are looked at.
SetSigners(signers) ==
  /\ task' = [task EXCEPT !.signers = signers]
  /\ Noted("resign", signatures # <<>> \/ \E q \in Requests : AtWork(q))
  /\ UNCHANGED <<document, signatures, generating, request, sent, files, stops>>

--------------------------------------------------------------------------------
(* POST /tasks/:id/commit, and the end of a sign request with ?commit=true *)

ReadForCommit(r) ==
  /\ Begin(r, [NoRequest EXCEPT !.pc = "task"])
  /\ NoteOther
  /\ UNCHANGED <<document, signatures, task, generating, sent, files, stops>>

CheckTask(r) ==
  /\ At(r, "task")
  /\ IF task.finished \/ document.file = NoFile
       THEN Over(r)
       ELSE Becomes(r, [request[r] EXCEPT !.pc = "check", !.signers = task.signers])
  /\ UNCHANGED <<document, signatures, task, generating, sent, files, stops, history>>

SignedBy == {signatures[i].by : i \in DOMAIN signatures}
SignedByAll(signers) == \A i \in DOMAIN signers : signers[i] \in SignedBy

\* At least MinPercent per cent as many users as there are signers have signed.
LimitRaised(signers) ==
  /\ MinPercent > 0 /\ signers # <<>>
  /\ 100 * Cardinality(SignedBy) >=
       MinPercent * Cardinality({signers[i] : i \in DOMAIN signers})

SignedEnough(signers) ==
  signatures # <<>> /\ (SignedByAll(signers) \/ LimitRaised(signers))

\* mutant: some signature is enough
CheckSignedBySome(r) ==
  /\ At(r, "check")
  /\ IF signatures # <<>> THEN GoTo(r, "finish") ELSE Over(r)
  /\ UNCHANGED <<document, signatures, task, generating, sent, files, stops, history>>

\* "Can't commit - not all signers sign document."
CheckSigned(r) ==
  /\ At(r, "check")
  /\ IF SignedEnough(request[r].signers) THEN GoTo(r, "finish") ELSE Over(r)
  /\ UNCHANGED <<document, signatures, task, generating, sent, files, stops, history>>

\* mutant: the condition is left to the check before
SetStatusFinishedAgain(r) ==
  /\ At(r, "finish")
  /\ GoTo(r, "final")
  /\ task' = [task EXCEPT !.finished = TRUE]
  /\ UNCHANGED <<document, signatures, generating, sent, files, stops, history>>

\* UPDATE ... WHERE finished = false
SetStatusFinished(r) ==
  /\ At(r, "finish")
  /\ IF task.finished THEN Over(r) ELSE GoTo(r, "final")
  /\ task' = [task EXCEPT !.finished = TRUE]
  /\ UNCHANGED <<document, signatures, generating, sent, files, stops, history>>

ReadForFinal(r) ==
  /\ At(r, "final")
  /\ Becomes(r, [request[r] EXCEPT !.pc = "setfinal", !.data = document.data])
  /\ UNCHANGED <<document, signatures, task, generating, sent, files, stops, history>>

SetStatusFinal(r) ==
  /\ At(r, "setfinal")
  /\ document' = [document EXCEPT !.final = TRUE, !.data = request[r].data]
  /\ GoTo(r, "send")
  /\ UNCHANGED <<signatures, task, generating, sent, files, stops, history>>

Produce(r) ==
  /\ At(r, "send")
  /\ sent' = sent \cup {r}
  /\ Over(r)
  /\ UNCHANGED <<document, signatures, task, generating, files, stops, history>>

--------------------------------------------------------------------------------
(***************************************************************************)
(* A request that is refused for another reason, an exception that ends    *)
(* it, or a crash of its process: nothing of what it has done is undone.   *)
(***************************************************************************)
RequestStops(r) ==
  /\ AtWork(r) /\ stops < MaxStops
  /\ ~(request[r].large /\ request[r].pc \in {"queued", "pdf", "store", "attach", "ack"})
  /\ stops' = stops + 1
  /\ Stop(r, IF request[r].pc \in {"recheck", "reset"} THEN "unchecked" ELSE "done")
  /\ UNCHANGED <<document, signatures, task, generating, sent, files, history>>

\* The key of a PDF whose message has been lost from sight expires in an hour.
KeyExpires ==
  /\ generating /\ stops < MaxStops
  /\ stops' = stops + 1
  /\ generating' = FALSE
  /\ UNCHANGED <<document, signatures, task, request, sent, files, history>>

EditStep(r) ==
  \/ ReadForUpdate(r) \/ CheckUnsigned(r) \/ UpdateData(r)
  \/ \E large \in BOOLEAN : ReadForPdf(r, large)
  \/ MarkGenerating(r) \/ QueuePdf(r) \/ TakePdfMessage(r)
  \/ CreatePdf(r) \/ AddDocumentFile(r) \/ PdfMessageDone(r)
  \/ PdfMessageFails(r) \/ PdfMessageReturns(r)

SignStep(r) ==
  \/ \E user \in Users, commit \in BOOLEAN : ReadForSign(r, user, commit)
  \/ CheckTurn(r) \/ GetDataForSign(r) \/ CreateSignature(r)
  \/ Recheck(r) \/ RecheckFails(r) \/ ResetSignatures(r)
  \/ ReadForDelete(r) \/ DeleteDocumentSigns(r)

CommitStep(r) ==
  \/ ReadForCommit(r) \/ CheckTask(r) \/ CheckSigned(r) \/ SetStatusFinished(r)
  \/ ReadForFinal(r) \/ SetStatusFinal(r) \/ Produce(r)

Next ==
  \/ \E r \in Requests : EditStep(r) \/ SignStep(r) \/ CommitStep(r) \/ RequestStops(r)
  \/ \E signers \in SignerLists : SetSigners(signers)
  \/ KeyExpires

Spec == Init /\ [][Next]_vars

--------------------------------------------------------------------------------
TypeOK ==
  /\ document \in [data : Data, final : BOOLEAN, file : File \cup {NoFile, Generating}]
  /\ signatures \in Seq([by : Users, file : Nat, data : Data])
  /\ task \in [signers : Seq(Users), finished : BOOLEAN]
  /\ generating \in BOOLEAN
  /\ request \in [Requests -> Request]
  /\ sent \subseteq Requests
  /\ files \in Nat /\ stops \in Nat
  /\ history \subseteq {"overlap", "resign", "withdrawn"}

(***************************************************************************)
(* The manager hears once that the task is done, however many commits, on  *)
(* their own or at the end of a sign request, race for it and whichever of *)
(* them stop half way.                                                     *)
(***************************************************************************)
CommittedOnce == \A r, q \in sent : r = q

(***************************************************************************)
(* A task that is done bears the signature of every signer, or of so many  *)
(* users as minSignaturesLimit asks for.  The commit counts them some      *)
(* awaits before it sets the status; the property excepts signatures       *)
(* deleted (by a user, by the reset of a late sign request, by a PDF       *)
(* message) and signers set anew in between or later.                      *)
(***************************************************************************)
CommittedIsSigned ==
  (task.finished /\ history \cap {"resign", "withdrawn"} = {}) => SignedEnough(task.signers)

(***************************************************************************)
(* Two requests can both find that it is their turn before either has      *)
(* signed; the one whose signature comes second must find out and withdraw *)
(* everything.  So when no sign request has its second check before it (or *)
(* has died before it), the signatures follow the list of the signers,     *)
(* unless the list was changed while they were being given.                *)
(***************************************************************************)
SignedInOrder ==
  \/ "resign" \in history
  \/ \E r \in Requests : request[r].pc \in {"recheck", "reset", "unchecked"}
  \/ ~WrongOrder(task.signers)

(***************************************************************************)
(* As long as no update or PDF overlaps another request, a signature is    *)
(* one of the data the document has, and, where signers sign, of the PDF   *)
(* it has: across updates, PDFs made anew, at once or through the queue,   *)
(* redelivered or failing PDF messages, and requests that stop half way.   *)
(***************************************************************************)
SignedIsCurrent ==
  "overlap" \notin history =>
    \A i \in DOMAIN signatures :
      /\ signatures[i].data = document.data
      /\ (task.signers # <<>> /\ "resign" \notin history /\ IsFile(document.file)) =>
           signatures[i].file = document.file.id
================================================================================
