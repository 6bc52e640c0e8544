------------------------- MODULE DocumentSigningProofs -------------------------
(***************************************************************************)
(* What DocumentSigning promises, for any number of requests and users,    *)
(* any lists of signers and any number of requests that stop half way.     *)
(***************************************************************************)
EXTENDS DocumentSigning, FiniteSetTheorems, TLAPS

--------------------------------------------------------------------------------
(* Types *)

LEMMA NoRequestTyped == NoRequest \in Request
  BY SigningAssumption DEF NoRequest, Request, Phases, Data

\* A request whose fields change within their types is a request.
LEMMA RequestChanged ==
  ASSUME NEW q \in Request, NEW p \in Phases
  PROVE  /\ \A d \in Data : [q EXCEPT !.pc = p, !.data = d] \in Request
         /\ \A s \in Seq(Users) : [q EXCEPT !.pc = p, !.signers = s] \in Request
         /\ \A d \in Data, s \in Seq(Users) : [q EXCEPT !.pc = p, !.data = d, !.signers = s] \in Request
         /\ \A f \in Nat : [q EXCEPT !.pc = p, !.file = f] \in Request
         /\ \A f \in Nat, d \in Data : [q EXCEPT !.pc = p, !.file = f, !.data = d] \in Request
         /\ \A b \in BOOLEAN, d \in Data, s \in Seq(Users) :
              [q EXCEPT !.pc = p, !.large = b, !.data = d, !.signers = s] \in Request
         /\ \A u \in Users, b \in BOOLEAN, s \in Seq(Users) :
              [q EXCEPT !.pc = p, !.user = u, !.commit = b, !.signers = s] \in Request
  BY DEF Request

\* One request becomes another one, and the others stay.
LEMMA Becoming ==
  ASSUME TypeOK, NEW r \in Requests, NEW new, Becomes(r, new)
  PROVE  /\ new \in Request => request' \in [Requests -> Request]
         /\ request'[r] = new
         /\ \A q \in Requests : q # r => request'[q] = request[q]
  BY DEF TypeOK, Becomes

LEMMA GoingTo ==
  ASSUME TypeOK, NEW r \in Requests, NEW p \in Phases, GoTo(r, p)
  PROVE  /\ request' \in [Requests -> Request]
         /\ request'[r].pc = p
         /\ request'[r].signers = request[r].signers
         /\ request'[r].data = request[r].data
         /\ request'[r].file = request[r].file
         /\ \A q \in Requests : q # r => request'[q] = request[q]
<1> DEFINE new == [request[r] EXCEPT !.pc = p]
<1>1. request[r] \in Request
  BY DEF TypeOK
<1>2. /\ new \in Request /\ new.pc = p
      /\ new.signers = request[r].signers /\ new.data = request[r].data
      /\ new.file = request[r].file
  BY <1>1 DEF Request
<1>3. Becomes(r, new)
  BY DEF GoTo
<1> HIDE DEF new
<1>4. /\ request' \in [Requests -> Request] /\ request'[r] = new
      /\ \A q \in Requests : q # r => request'[q] = request[q]
  BY <1>2, <1>3, Becoming
<1> QED
  BY <1>2, <1>4

LEMMA Stopping ==
  ASSUME TypeOK, NEW r \in Requests, NEW p \in Phases, Stop(r, p)
  PROVE  /\ request' \in [Requests -> Request]
         /\ request'[r].pc = p
         /\ \A q \in Requests : q # r => request'[q] = request[q]
<1> DEFINE new == [NoRequest EXCEPT !.pc = p]
<1>2. new \in Request /\ new.pc = p
  BY NoRequestTyped DEF Request
<1>3. Becomes(r, new)
  BY DEF Stop
<1> HIDE DEF new
<1>4. /\ request' \in [Requests -> Request] /\ request'[r] = new
      /\ \A q \in Requests : q # r => request'[q] = request[q]
  BY <1>2, <1>3, Becoming
<1> QED
  BY <1>2, <1>4

LEMMA InitTypes == Init => TypeOK
<1> SUFFICES ASSUME Init PROVE TypeOK
  OBVIOUS
<1>1. document \in [data : Data, final : BOOLEAN, file : File \cup {NoFile, Generating}]
  <2>1. {} \in Data /\ [id |-> 0, data |-> {}] \in File
    BY DEF Data, File
  <2> QED
    BY <2>1 DEF Init
<1>2. task \in [signers : Seq(Users), finished : BOOLEAN]
  BY DEF Init
<1>3. request \in [Requests -> Request] /\ signatures \in Seq([by : Users, file : Nat, data : Data])
  BY NoRequestTyped DEF Init
<1> QED
  BY <1>1, <1>2, <1>3 DEF Init, TypeOK

\* The other variables, and what a step that concerns one request does to them.
LEMMA TypesEdit == ASSUME TypeOK, NEW r \in Requests, EditStep(r) PROVE TypeOK'
<1> USE DEF Over, At, NoteEdit, Noted
<1>0. request[r] \in Request /\ document.data \in Data /\ task.signers \in Seq(Users)
  BY DEF TypeOK
<1>1. CASE ReadForUpdate(r)
  <2>1. [NoRequest EXCEPT !.pc = "unsigned", !.data = document.data] \in Request
    BY <1>0, NoRequestTyped, RequestChanged DEF Phases, Edits
  <2>2. request' \in [Requests -> Request]
    BY <1>1, <2>1, Becoming DEF ReadForUpdate, Begin
  <2> QED
    BY <1>1, <2>2 DEF ReadForUpdate, TypeOK
<1>2. CASE CheckUnsigned(r)
  <2>1. request' \in [Requests -> Request]
    BY <1>2, GoingTo, Stopping DEF CheckUnsigned, Phases, Edits
  <2> QED
    BY <1>2, <2>1 DEF CheckUnsigned, TypeOK
<1>3. CASE UpdateData(r)
  <2>1. request' \in [Requests -> Request]
    BY <1>3, Stopping DEF UpdateData, Phases
  <2>2. request[r].data \cup {r} \in Data
    BY <1>0 DEF Request, Data
  <2> QED
    BY <1>3, <2>1, <2>2 DEF UpdateData, TypeOK
<1>4. ASSUME NEW large \in BOOLEAN, ReadForPdf(r, large) PROVE TypeOK'
  <2> DEFINE pc == IF large THEN "mark" ELSE "pdf"
  <2>0. pc \in Phases
    BY DEF Phases, Edits
  <2>1. [NoRequest EXCEPT !.pc = pc, !.large = large, !.data = document.data,
                          !.signers = task.signers] \in Request
    <3> HIDE DEF pc
    <3> QED
      BY <1>0, <2>0, NoRequestTyped, RequestChanged
  <2>2. request' \in [Requests -> Request]
    BY <1>4, <2>1, Becoming DEF ReadForPdf, Begin
  <2> QED
    BY <1>4, <2>2 DEF ReadForPdf, TypeOK
<1>5. CASE MarkGenerating(r)
  <2>1. request' \in [Requests -> Request]
    BY <1>5, GoingTo DEF MarkGenerating, Phases, Edits
  <2> QED
    BY <1>5, <2>1 DEF MarkGenerating, TypeOK
<1>6. CASE QueuePdf(r)
  <2>1. request' \in [Requests -> Request]
    BY <1>6, GoingTo DEF QueuePdf, Phases, Edits
  <2> QED
    BY <1>6, <2>1 DEF QueuePdf, TypeOK
<1>7. CASE TakePdfMessage(r)
  <2>1. [request[r] EXCEPT !.pc = "pdf", !.data = document.data, !.signers = task.signers]
          \in Request
    BY <1>0, RequestChanged DEF Phases, Edits
  <2>2. request' \in [Requests -> Request]
    BY <1>7, <2>1, Becoming DEF TakePdfMessage
  <2> QED
    BY <1>7, <2>2 DEF TakePdfMessage, TypeOK
<1>8. CASE CreatePdf(r)
  <2>0. files + 1 \in Nat
    BY DEF TypeOK
  <2>1. [request[r] EXCEPT !.pc = "store", !.file = files + 1] \in Request
    BY <1>0, <2>0, RequestChanged DEF Phases, Edits
  <2>2. request' \in [Requests -> Request]
    BY <1>8, <2>1, Becoming DEF CreatePdf
  <2>3. /\ signatures' \in Seq([by : Users, file : Nat, data : Data])
        /\ history' \subseteq {"overlap", "resign", "withdrawn"}
    <3>1. CASE request[r].signers = <<>>
      BY <1>8, <3>1 DEF CreatePdf, Withdraw, TypeOK
    <3>2. CASE request[r].signers # <<>>
      BY <1>8, <3>2 DEF CreatePdf, Withdraw, DeleteByDocumentId, NoteWithdrawal, TypeOK
    <3> QED
      BY <3>1, <3>2
  <2> QED
    BY <1>8, <2>0, <2>2, <2>3 DEF CreatePdf, TypeOK
<1>9. CASE AddDocumentFile(r)
  <2>1. request' \in [Requests -> Request]
    BY <1>9, GoingTo, Stopping DEF AddDocumentFile, Phases, Edits
  <2>2. [id |-> request[r].file, data |-> request[r].data] \in File
    BY <1>0 DEF Request, File
  <2> QED
    BY <1>9, <2>1, <2>2 DEF AddDocumentFile, TypeOK
<1>10. CASE PdfMessageDone(r)
  <2>1. request' \in [Requests -> Request]
    BY <1>10, Stopping DEF PdfMessageDone, Phases
  <2> QED
    BY <1>10, <2>1 DEF PdfMessageDone, TypeOK
<1>11. CASE PdfMessageFails(r)
  <2>1. request' \in [Requests -> Request]
    BY <1>11, GoingTo DEF PdfMessageFails, Phases, Edits
  <2> QED
    BY <1>11, <2>1 DEF PdfMessageFails, TypeOK
<1>12. CASE PdfMessageReturns(r)
  <2>1. request' \in [Requests -> Request]
    BY <1>12, GoingTo DEF PdfMessageReturns, Phases, Edits
  <2> QED
    BY <1>12, <2>1 DEF PdfMessageReturns, TypeOK
<1> QED
  BY <1>1, <1>2, <1>3, <1>4, <1>5, <1>6, <1>7, <1>8, <1>9, <1>10, <1>11, <1>12 DEF EditStep

LEMMA TypesSign == ASSUME TypeOK, NEW r \in Requests, SignStep(r) PROVE TypeOK'
<1> USE DEF Over, At, NoteOther, Noted
<1>0. request[r] \in Request /\ task.signers \in Seq(Users)
  BY DEF TypeOK
<1>1. ASSUME NEW user \in Users, NEW commit \in BOOLEAN, ReadForSign(r, user, commit)
      PROVE  TypeOK'
  <2>1. [NoRequest EXCEPT !.pc = "order", !.user = user, !.commit = commit,
                          !.signers = task.signers] \in Request
    BY <1>0, NoRequestTyped, RequestChanged DEF Phases, Signs
  <2>2. request' \in [Requests -> Request]
    BY <1>1, <2>1, Becoming DEF ReadForSign, Begin
  <2> QED
    BY <1>1, <2>2 DEF ReadForSign, TypeOK
<1>2. CASE CheckTurn(r)
  <2>1. request' \in [Requests -> Request]
    BY <1>2, GoingTo, Stopping DEF CheckTurn, Phases, Signs
  <2> QED
    BY <1>2, <2>1 DEF CheckTurn, TypeOK
<1>3. CASE GetDataForSign(r)
  <2>1. CASE IsFile(document.file)
    <3>1. document.file.id \in Nat /\ document.file.data \in Data
      BY <2>1 DEF IsFile, File, TypeOK
    <3>2. [request[r] EXCEPT !.pc = "insert", !.file = document.file.id,
                             !.data = document.file.data] \in Request
      BY <1>0, <3>1, RequestChanged DEF Phases, Signs
    <3>3. request' \in [Requests -> Request]
      BY <1>3, <2>1, <3>2, Becoming DEF GetDataForSign
    <3> QED
      BY <1>3, <3>3 DEF GetDataForSign, TypeOK
  <2>2. CASE ~IsFile(document.file)
    <3>1. request' \in [Requests -> Request]
      BY <1>3, <2>2, Stopping DEF GetDataForSign, Phases
    <3> QED
      BY <1>3, <3>1 DEF GetDataForSign, TypeOK
  <2> QED
    BY <2>1, <2>2
<1>4. CASE CreateSignature(r)
  <2>1. request' \in [Requests -> Request]
    BY <1>4, GoingTo DEF CreateSignature, Phases, Signs
  <2>2. [by |-> request[r].user, file |-> request[r].file, data |-> request[r].data]
          \in [by : Users, file : Nat, data : Data]
    BY <1>0 DEF Request
  <2> QED
    BY <1>4, <2>1, <2>2 DEF CreateSignature, TypeOK
<1>5. CASE Recheck(r)
  <2>1. request' \in [Requests -> Request]
    BY <1>5, GoingTo, Stopping DEF Recheck, AfterSign, Phases, Commits
  <2> QED
    BY <1>5, <2>1 DEF Recheck, TypeOK
<1>6. CASE RecheckFails(r)
  <2>1. request' \in [Requests -> Request]
    BY <1>6, GoingTo DEF RecheckFails, Phases, Signs
  <2> QED
    BY <1>6, <2>1 DEF RecheckFails, TypeOK
<1>7. CASE ResetSignatures(r)
  <2>1. request' \in [Requests -> Request]
    BY <1>7, Stopping DEF ResetSignatures, Phases
  <2> QED
    BY <1>7, <2>1 DEF ResetSignatures, DeleteByDocumentId, NoteWithdrawal, TypeOK
<1>8. CASE ReadForDelete(r)
  <2>1. [NoRequest EXCEPT !.pc = "delete"] \in Request
    BY NoRequestTyped DEF Request, Phases
  <2>2. request' \in [Requests -> Request]
    BY <1>8, <2>1, Becoming DEF ReadForDelete, Begin
  <2> QED
    BY <1>8, <2>2 DEF ReadForDelete, TypeOK
<1>9. CASE DeleteDocumentSigns(r)
  <2>1. request' \in [Requests -> Request]
    BY <1>9, Stopping DEF DeleteDocumentSigns, Phases
  <2> QED
    BY <1>9, <2>1 DEF DeleteDocumentSigns, DeleteByDocumentId, NoteWithdrawal, TypeOK
<1> QED
  BY <1>1, <1>2, <1>3, <1>4, <1>5, <1>6, <1>7, <1>8, <1>9 DEF SignStep

LEMMA TypesCommit == ASSUME TypeOK, NEW r \in Requests, CommitStep(r) PROVE TypeOK'
<1> USE DEF Over, At, NoteOther, Noted
<1>0. request[r] \in Request /\ document.data \in Data /\ task.signers \in Seq(Users)
  BY DEF TypeOK
<1>1. CASE ReadForCommit(r)
  <2>1. [NoRequest EXCEPT !.pc = "task"] \in Request
    BY NoRequestTyped DEF Request, Phases, Commits
  <2>2. request' \in [Requests -> Request]
    BY <1>1, <2>1, Becoming DEF ReadForCommit, Begin
  <2> QED
    BY <1>1, <2>2 DEF ReadForCommit, TypeOK
<1>2. CASE CheckTask(r)
  <2>1. [request[r] EXCEPT !.pc = "check", !.signers = task.signers] \in Request
    BY <1>0, RequestChanged DEF Phases, Commits
  <2>2. request' \in [Requests -> Request]
    BY <1>2, <2>1, Becoming, Stopping DEF CheckTask, Phases
  <2> QED
    BY <1>2, <2>2 DEF CheckTask, TypeOK
<1>3. CASE CheckSigned(r)
  <2>1. request' \in [Requests -> Request]
    BY <1>3, GoingTo, Stopping DEF CheckSigned, Phases, Commits
  <2> QED
    BY <1>3, <2>1 DEF CheckSigned, TypeOK
<1>4. CASE SetStatusFinished(r)
  <2>1. request' \in [Requests -> Request]
    BY <1>4, GoingTo, Stopping DEF SetStatusFinished, Phases, Commits
  <2> QED
    BY <1>4, <2>1 DEF SetStatusFinished, TypeOK
<1>5. CASE ReadForFinal(r)
  <2>1. [request[r] EXCEPT !.pc = "setfinal", !.data = document.data] \in Request
    BY <1>0, RequestChanged DEF Phases, Commits
  <2>2. request' \in [Requests -> Request]
    BY <1>5, <2>1, Becoming DEF ReadForFinal
  <2> QED
    BY <1>5, <2>2 DEF ReadForFinal, TypeOK
<1>6. CASE SetStatusFinal(r)
  <2>1. request' \in [Requests -> Request]
    BY <1>6, GoingTo DEF SetStatusFinal, Phases, Commits
  <2>2. request[r].data \in Data
    BY <1>0 DEF Request
  <2> QED
    BY <1>6, <2>1, <2>2 DEF SetStatusFinal, TypeOK
<1>7. CASE Produce(r)
  <2>1. request' \in [Requests -> Request]
    BY <1>7, Stopping DEF Produce, Phases
  <2> QED
    BY <1>7, <2>1 DEF Produce, TypeOK
<1> QED
  BY <1>1, <1>2, <1>3, <1>4, <1>5, <1>6, <1>7 DEF CommitStep

LEMMA TypesNext == TypeOK /\ [Next]_vars => TypeOK'
<1> SUFFICES ASSUME TypeOK, [Next]_vars PROVE TypeOK'
  OBVIOUS
<1>1. ASSUME NEW r \in Requests, RequestStops(r) PROVE TypeOK'
  <2>1. request' \in [Requests -> Request]
    BY <1>1, Stopping DEF RequestStops, Phases
  <2> QED
    BY <1>1, <2>1 DEF RequestStops, TypeOK
<1>2. ASSUME NEW signers \in SignerLists, SetSigners(signers) PROVE TypeOK'
  <2>1. signers \in Seq(Users)
    BY SigningAssumption
  <2> QED
    BY <1>2, <2>1 DEF SetSigners, Noted, TypeOK
<1>3. CASE KeyExpires
  <2>1. generating' \in BOOLEAN
    BY <1>3 DEF KeyExpires
  <2>2. stops' \in Nat
    BY <1>3 DEF KeyExpires, TypeOK
  <2>3. UNCHANGED <<document, signatures, task, request, sent, files, history>>
    BY <1>3 DEF KeyExpires
  <2> QED
    BY <2>1, <2>2, <2>3 DEF TypeOK
<1>4. CASE UNCHANGED vars
  BY <1>4 DEF vars, TypeOK
<1>5. ASSUME NEW r \in Requests, EditStep(r) \/ SignStep(r) \/ CommitStep(r) PROVE TypeOK'
  BY <1>5, TypesEdit, TypesSign, TypesCommit
<1> QED
  BY <1>1, <1>2, <1>3, <1>4, <1>5 DEF Next

\* The tables and the requests have their types.
THEOREM TypesHold == Spec => []TypeOK
  BY InitTypes, TypesNext, PTL DEF Spec

--------------------------------------------------------------------------------
(* Which phases a step leads from and to *)

Moves(r, from, to) ==
  /\ request[r].pc \in from /\ request'[r].pc \in to
  /\ \A q \in Requests : q # r => request'[q] = request[q]

LEMMA EditMoves ==
  ASSUME TypeOK, NEW r \in Requests, EditStep(r)
  PROVE  /\ Moves(r, {"new"} \cup Edits, {"done"} \cup Edits)
         /\ UNCHANGED <<task, sent>>
<1> USE DEF Moves, Over, At, Phases, Edits
<1>1. CASE ReadForUpdate(r)
  <2>1. request'[r].pc = "unsigned"
    BY <1>1 DEF ReadForUpdate, Becomes, Begin, NoRequest, TypeOK
  <2>2. \A q \in Requests : q # r => request'[q] = request[q]
    BY <1>1, Becoming DEF ReadForUpdate, Begin
  <2> QED
    BY <1>1, <2>1, <2>2 DEF ReadForUpdate, Begin
<1>2. CASE CheckUnsigned(r)
  BY <1>2, GoingTo, Stopping DEF CheckUnsigned
<1>3. CASE UpdateData(r)
  BY <1>3, Stopping DEF UpdateData
<1>4. ASSUME NEW large \in BOOLEAN, ReadForPdf(r, large)
      PROVE  Moves(r, {"new"} \cup Edits, {"done"} \cup Edits) /\ UNCHANGED <<task, sent>>
  <2>1. request'[r].pc \in {"mark", "pdf"}
    BY <1>4 DEF ReadForPdf, Becomes, Begin, NoRequest, TypeOK
  <2>2. \A q \in Requests : q # r => request'[q] = request[q]
    BY <1>4, Becoming DEF ReadForPdf, Begin
  <2> QED
    BY <1>4, <2>1, <2>2 DEF ReadForPdf, Begin
<1>5. CASE MarkGenerating(r)
  BY <1>5, GoingTo DEF MarkGenerating
<1>6. CASE QueuePdf(r)
  BY <1>6, GoingTo DEF QueuePdf
<1>7. CASE TakePdfMessage(r)
  <2>1. request'[r].pc = "pdf"
    BY <1>7 DEF TakePdfMessage, Becomes, TypeOK, Request
  <2>2. \A q \in Requests : q # r => request'[q] = request[q]
    BY <1>7, Becoming DEF TakePdfMessage
  <2> QED
    BY <1>7, <2>1, <2>2 DEF TakePdfMessage
<1>8. CASE CreatePdf(r)
  <2>1. request'[r].pc = "store"
    BY <1>8 DEF CreatePdf, Becomes, TypeOK, Request
  <2>2. \A q \in Requests : q # r => request'[q] = request[q]
    BY <1>8, Becoming DEF CreatePdf
  <2> QED
    BY <1>8, <2>1, <2>2 DEF CreatePdf
<1>9. CASE AddDocumentFile(r)
  BY <1>9, GoingTo, Stopping DEF AddDocumentFile
<1>10. CASE PdfMessageDone(r)
  BY <1>10, Stopping DEF PdfMessageDone
<1>11. CASE PdfMessageFails(r)
  BY <1>11, GoingTo DEF PdfMessageFails
<1>12. CASE PdfMessageReturns(r)
  BY <1>12, GoingTo DEF PdfMessageReturns
<1> QED
  BY <1>1, <1>2, <1>3, <1>4, <1>5, <1>6, <1>7, <1>8, <1>9, <1>10, <1>11, <1>12 DEF EditStep

LEMMA SignMoves ==
  ASSUME TypeOK, NEW r \in Requests, SignStep(r)
  PROVE  /\ Moves(r, {"new", "delete"} \cup Signs, {"done", "delete", "task"} \cup Signs)
         /\ UNCHANGED <<document, task, sent>>
<1> DEFINE Goal == /\ Moves(r, {"new", "delete"} \cup Signs, {"done", "delete", "task"} \cup Signs)
                   /\ UNCHANGED <<document, task, sent>>
<1> USE DEF Moves, Over, At, Phases, Signs, Commits
<1>1. ASSUME NEW user \in Users, NEW commit \in BOOLEAN, ReadForSign(r, user, commit)
      PROVE  Goal
  <2>1. request'[r].pc = "order"
    BY <1>1 DEF ReadForSign, Becomes, Begin, NoRequest, TypeOK
  <2>2. \A q \in Requests : q # r => request'[q] = request[q]
    BY <1>1, Becoming DEF ReadForSign, Begin
  <2> QED
    BY <1>1, <2>1, <2>2 DEF ReadForSign, Begin
<1>2. CASE CheckTurn(r)
  BY <1>2, GoingTo, Stopping DEF CheckTurn
<1>3. CASE GetDataForSign(r)
  <2>1. request'[r].pc \in {"insert", "done"}
    <3>1. CASE IsFile(document.file)
      <4>1. Becomes(r, [request[r] EXCEPT !.pc = "insert", !.file = document.file.id,
                                          !.data = document.file.data])
        BY <1>3, <3>1 DEF GetDataForSign
      <4> QED
        BY <4>1 DEF Becomes, TypeOK, Request
    <3>2. CASE ~IsFile(document.file)
      BY <1>3, <3>2, Stopping DEF GetDataForSign
    <3> QED
      BY <3>1, <3>2
  <2>2. \A q \in Requests : q # r => request'[q] = request[q]
    BY <1>3, Becoming, Stopping DEF GetDataForSign
  <2> QED
    BY <1>3, <2>1, <2>2 DEF GetDataForSign
<1>4. CASE CreateSignature(r)
  BY <1>4, GoingTo DEF CreateSignature
<1>5. CASE Recheck(r)
  BY <1>5, GoingTo, Stopping DEF Recheck, AfterSign
<1>6. CASE RecheckFails(r)
  BY <1>6, GoingTo DEF RecheckFails
<1>7. CASE ResetSignatures(r)
  BY <1>7, Stopping DEF ResetSignatures
<1>8. CASE ReadForDelete(r)
  <2>1. request'[r].pc = "delete"
    BY <1>8 DEF ReadForDelete, Becomes, Begin, NoRequest, TypeOK
  <2>2. \A q \in Requests : q # r => request'[q] = request[q]
    BY <1>8, Becoming DEF ReadForDelete, Begin
  <2> QED
    BY <1>8, <2>1, <2>2 DEF ReadForDelete, Begin
<1>9. CASE DeleteDocumentSigns(r)
  BY <1>9, Stopping DEF DeleteDocumentSigns
<1> QED
  BY <1>1, <1>2, <1>3, <1>4, <1>5, <1>6, <1>7, <1>8, <1>9 DEF SignStep

LEMMA CheckTaskLeads ==
  ASSUME TypeOK, NEW r \in Requests, CheckTask(r)
  PROVE  request'[r].pc \in {"check", "done"}
<1>1. CASE task.finished \/ document.file = NoFile
  BY <1>1, Stopping DEF CheckTask, Over, Phases
<1>2. CASE ~(task.finished \/ document.file = NoFile)
  BY <1>2 DEF CheckTask, Becomes, TypeOK, Request
<1> QED
  BY <1>1, <1>2

LEMMA CommitMoves ==
  ASSUME TypeOK, NEW r \in Requests, CommitStep(r)
  PROVE  Moves(r, {"new"} \cup Commits, {"done"} \cup Commits) /\ UNCHANGED signatures
<1> USE DEF Moves, Over, At, Phases, Commits
<1>1. CASE ReadForCommit(r)
  <2>1. request'[r].pc = "task"
    BY <1>1 DEF ReadForCommit, Becomes, Begin, NoRequest, TypeOK
  <2>2. \A q \in Requests : q # r => request'[q] = request[q]
    BY <1>1, Becoming DEF ReadForCommit, Begin
  <2> QED
    BY <1>1, <2>1, <2>2 DEF ReadForCommit, Begin
<1>2. CASE CheckTask(r)
  <2>1. request'[r].pc \in {"check", "done"}
    BY <1>2, CheckTaskLeads
  <2>2. \A q \in Requests : q # r => request'[q] = request[q]
    BY <1>2, Becoming, Stopping DEF CheckTask
  <2> QED
    BY <1>2, <2>1, <2>2 DEF CheckTask
<1>3. CASE CheckSigned(r)
  BY <1>3, GoingTo, Stopping DEF CheckSigned
<1>4. CASE SetStatusFinished(r)
  BY <1>4, GoingTo, Stopping DEF SetStatusFinished
<1>5. CASE ReadForFinal(r)
  <2>1. request'[r].pc = "setfinal"
    BY <1>5 DEF ReadForFinal, Becomes, TypeOK, Request
  <2>2. \A q \in Requests : q # r => request'[q] = request[q]
    BY <1>5, Becoming DEF ReadForFinal
  <2> QED
    BY <1>5, <2>1, <2>2 DEF ReadForFinal
<1>6. CASE SetStatusFinal(r)
  BY <1>6, GoingTo DEF SetStatusFinal
<1>7. CASE Produce(r)
  BY <1>7, Stopping DEF Produce
<1> QED
  BY <1>1, <1>2, <1>3, <1>4, <1>5, <1>6, <1>7 DEF CommitStep

LEMMA StopMoves ==
  ASSUME TypeOK, NEW r \in Requests, RequestStops(r)
  PROVE  /\ Moves(r, Phases, {"done", "unchecked"})
         /\ request[r].pc \in {"recheck", "reset"} => request'[r].pc = "unchecked"
         /\ UNCHANGED <<document, signatures, task, sent, history>>
<1>1. request[r].pc \in Phases
  BY DEF TypeOK, Request
<1> QED
  BY <1>1, Stopping DEF RequestStops, Moves, Phases

--------------------------------------------------------------------------------
(* One commit *)

Committing(r) == request[r].pc \in {"final", "setfinal", "send"} \/ r \in sent

OneCommits ==
  \A r \in Requests : Committing(r) =>
    task.finished /\ \A q \in Requests : Committing(q) => q = r

LEMMA OneCommitsNext ==
  ASSUME TypeOK, OneCommits, [Next]_vars
  PROVE  OneCommits'
<1> USE DEF OneCommits, Committing
<1>1. ASSUME NEW r \in Requests, EditStep(r) PROVE OneCommits'
  BY <1>1, EditMoves DEF Moves, Edits
<1>2. ASSUME NEW r \in Requests, SignStep(r) PROVE OneCommits'
  BY <1>2, SignMoves DEF Moves, Signs
<1>3. ASSUME NEW r \in Requests, RequestStops(r) PROVE OneCommits'
  BY <1>3, StopMoves DEF Moves
<1>4. ASSUME NEW r \in Requests, CommitStep(r) PROVE OneCommits'
  <2> USE DEF Moves
  <2>0. \A q \in Requests : q # r => request'[q] = request[q]
    BY <1>4, CommitMoves
  <2>1. CASE ReadForCommit(r) \/ CheckTask(r) \/ CheckSigned(r)
    <3>1. request'[r].pc \in {"task", "check", "finish", "done"}
      <4>1. CASE ReadForCommit(r)
        BY <4>1 DEF ReadForCommit, Becomes, Begin, NoRequest, TypeOK
      <4>2. CASE CheckTask(r)
        BY <4>2, CheckTaskLeads
      <4>3. CASE CheckSigned(r)
        BY <4>3, GoingTo, Stopping DEF CheckSigned, Over, Phases, Commits
      <4> QED
        BY <2>1, <4>1, <4>2, <4>3
    <3>2. UNCHANGED <<task, sent>>
      BY <2>1 DEF ReadForCommit, CheckTask, CheckSigned
    <3> QED
      BY <2>0, <3>1, <3>2
  <2>2. CASE SetStatusFinished(r)
    <3>1. /\ task'.finished /\ UNCHANGED sent
          /\ task.finished => request'[r].pc = "done"
      BY <2>2, GoingTo, Stopping DEF SetStatusFinished, Over, TypeOK, Phases, Commits
    <3> QED
      BY <2>0, <3>1
  <2>3. CASE ReadForFinal(r) \/ SetStatusFinal(r) \/ Produce(r)
    <3>1. Committing(r) /\ UNCHANGED task /\ sent' \subseteq sent \cup {r}
      BY <2>3 DEF ReadForFinal, SetStatusFinal, Produce, At
    <3> QED
      BY <2>0, <3>1
  <2> QED
    BY <1>4, <2>1, <2>2, <2>3 DEF CommitStep
<1>5. ASSUME NEW signers \in SignerLists, SetSigners(signers) PROVE OneCommits'
  BY <1>5 DEF SetSigners, TypeOK
<1>6. CASE KeyExpires
  BY <1>6 DEF KeyExpires
<1>7. CASE UNCHANGED vars
  BY <1>7 DEF vars
<1> QED
  BY <1>1, <1>2, <1>3, <1>4, <1>5, <1>6, <1>7 DEF Next

(***************************************************************************)
(* However many requests try to commit the task, and wherever they stop,   *)
(* the message that it is done is sent once.                               *)
(***************************************************************************)
THEOREM OneMessage == Spec => []CommittedOnce
<1>1. Init => OneCommits
  BY DEF Init, OneCommits, Committing, NoRequest
<1>2. TypeOK /\ OneCommits /\ [Next]_vars => OneCommits'
  BY OneCommitsNext
<1>3. TypeOK /\ OneCommits => CommittedOnce
  BY DEF TypeOK, OneCommits, Committing, CommittedOnce
<1> QED
  BY <1>1, <1>2, <1>3, TypesHold, PTL DEF Spec

--------------------------------------------------------------------------------
(* The order of the signatures *)

LEMMA HistoryGrows == [Next]_vars => history \subseteq history'
<1> USE DEF Noted, NoteEdit, NoteOther, NoteWithdrawal, DeleteByDocumentId
<1>1. ASSUME NEW r \in Requests, EditStep(r) PROVE history \subseteq history'
  BY <1>1 DEF EditStep, ReadForUpdate, CheckUnsigned, UpdateData, ReadForPdf, MarkGenerating,
     QueuePdf, TakePdfMessage, CreatePdf, Withdraw, AddDocumentFile, PdfMessageDone,
     PdfMessageFails, PdfMessageReturns
<1>2. ASSUME NEW r \in Requests, SignStep(r) PROVE history \subseteq history'
  BY <1>2 DEF SignStep, ReadForSign, CheckTurn, GetDataForSign, CreateSignature, Recheck,
     RecheckFails, ResetSignatures, ReadForDelete, DeleteDocumentSigns
<1>3. ASSUME NEW r \in Requests, CommitStep(r) PROVE history \subseteq history'
  BY <1>3 DEF CommitStep, ReadForCommit, CheckTask, CheckSigned, SetStatusFinished,
     ReadForFinal, SetStatusFinal, Produce
<1>4. ASSUME NEW r \in Requests, RequestStops(r) PROVE history \subseteq history'
  BY <1>4 DEF RequestStops
<1>5. ASSUME NEW signers \in SignerLists, SetSigners(signers) PROVE history \subseteq history'
  BY <1>5 DEF SetSigners
<1> QED
  BY <1>1, <1>2, <1>3, <1>4, <1>5 DEF Next, vars, KeyExpires

\* What a request has read of the signers is still so, unless they were changed.
CopyPhases == Signs \cup {"check", "pdf"}
FreshCopies ==
  "resign" \notin history =>
    \A r \in Requests : request[r].pc \in CopyPhases => request[r].signers = task.signers

LEMMA CopiesEdit ==
  ASSUME TypeOK, FreshCopies, NEW r \in Requests, EditStep(r)
  PROVE  FreshCopies'
<1> DEFINE Fine == request'[r].pc \in CopyPhases => request'[r].signers = task.signers
<1>1. Fine
  <2> USE DEF CopyPhases, Signs, Over, Phases, Edits
  <2>1. CASE ReadForUpdate(r)
    <3>1. request'[r].pc = "unsigned"
      BY <2>1 DEF ReadForUpdate, Begin, Becomes, NoRequest, TypeOK
    <3> QED
      BY <3>1
  <2>2. CASE CheckUnsigned(r)
    BY <2>2, GoingTo, Stopping DEF CheckUnsigned
  <2>3. CASE UpdateData(r)
    BY <2>3, Stopping DEF UpdateData
  <2>4. ASSUME NEW large \in BOOLEAN, ReadForPdf(r, large) PROVE Fine
    <3>1. request'[r].signers = task.signers
      BY <2>4 DEF ReadForPdf, Begin, Becomes, NoRequest, TypeOK
    <3> QED
      BY <3>1
  <2>5. CASE MarkGenerating(r) \/ QueuePdf(r)
    BY <2>5, GoingTo DEF MarkGenerating, QueuePdf
  <2>6. CASE TakePdfMessage(r)
    <3>1. request'[r].signers = task.signers
      BY <2>6 DEF TakePdfMessage, Becomes, TypeOK, Request
    <3> QED
      BY <3>1
  <2>7. CASE CreatePdf(r)
    <3>1. request'[r].pc = "store"
      BY <2>7 DEF CreatePdf, Becomes, TypeOK, Request
    <3> QED
      BY <3>1
  <2>8. CASE AddDocumentFile(r)
    BY <2>8, GoingTo, Stopping DEF AddDocumentFile
  <2>9. CASE PdfMessageDone(r)
    BY <2>9, Stopping DEF PdfMessageDone
  <2>10. CASE PdfMessageFails(r) \/ PdfMessageReturns(r)
    BY <2>10, GoingTo DEF PdfMessageFails, PdfMessageReturns
  <2> QED
    BY <2>1, <2>2, <2>3, <2>4, <2>5, <2>6, <2>7, <2>8, <2>9, <2>10 DEF EditStep
<1> HIDE DEF Fine
<1>2. history \subseteq history'
  BY HistoryGrows DEF Next
<1>3. UNCHANGED task /\ \A q \in Requests : q # r => request'[q] = request[q]
  BY EditMoves DEF Moves
<1> QED
  BY <1>1, <1>2, <1>3 DEF FreshCopies, Fine

LEMMA CopiesSign ==
  ASSUME TypeOK, FreshCopies, NEW r \in Requests, SignStep(r)
  PROVE  FreshCopies'
<1> DEFINE Fine == "resign" \notin history /\ request'[r].pc \in CopyPhases
                     => request'[r].signers = task.signers
<1>1. Fine
  <2> USE DEF CopyPhases, Signs, Over, Phases, Commits, At
  <2>1. ASSUME NEW user \in Users, NEW commit \in BOOLEAN, ReadForSign(r, user, commit)
        PROVE  Fine
    <3>1. request'[r].signers = task.signers
      BY <2>1 DEF ReadForSign, Begin, Becomes, NoRequest, TypeOK
    <3> QED
      BY <3>1
  <2>2. CASE CheckTurn(r)
    BY <2>2, GoingTo, Stopping DEF CheckTurn, FreshCopies
  <2>3. CASE GetDataForSign(r)
    <3>1. CASE IsFile(document.file)
      <4>1. Becomes(r, [request[r] EXCEPT !.pc = "insert", !.file = document.file.id,
                                          !.data = document.file.data])
        BY <2>3, <3>1 DEF GetDataForSign
      <4>2. request'[r].signers = request[r].signers
        BY <4>1 DEF Becomes, TypeOK, Request
      <4> QED
        BY <2>3, <4>2 DEF GetDataForSign, FreshCopies
    <3>2. CASE ~IsFile(document.file)
      BY <2>3, <3>2, Stopping DEF GetDataForSign
    <3> QED
      BY <3>1, <3>2
  <2>4. CASE CreateSignature(r)
    BY <2>4, GoingTo DEF CreateSignature, FreshCopies
  <2>5. CASE Recheck(r)
    BY <2>5, GoingTo, Stopping DEF Recheck, AfterSign
  <2>6. CASE RecheckFails(r)
    BY <2>6, GoingTo DEF RecheckFails, FreshCopies
  <2>7. CASE ResetSignatures(r)
    BY <2>7, Stopping DEF ResetSignatures
  <2>8. CASE ReadForDelete(r)
    <3>1. request'[r].pc = "delete"
      BY <2>8 DEF ReadForDelete, Begin, Becomes, NoRequest, TypeOK
    <3> QED
      BY <3>1
  <2>9. CASE DeleteDocumentSigns(r)
    BY <2>9, Stopping DEF DeleteDocumentSigns
  <2> QED
    BY <2>1, <2>2, <2>3, <2>4, <2>5, <2>6, <2>7, <2>8, <2>9 DEF SignStep
<1> HIDE DEF Fine
<1>2. history \subseteq history'
  BY HistoryGrows DEF Next
<1>3. UNCHANGED task /\ \A q \in Requests : q # r => request'[q] = request[q]
  BY SignMoves DEF Moves
<1> QED
  BY <1>1, <1>2, <1>3 DEF FreshCopies, Fine

LEMMA CopiesCommit ==
  ASSUME TypeOK, FreshCopies, NEW r \in Requests, CommitStep(r)
  PROVE  FreshCopies' /\ task'.signers = task.signers
<1> DEFINE Fine == request'[r].pc \in CopyPhases => request'[r].signers = task.signers
<1>0. task'.signers = task.signers
  BY DEF CommitStep, ReadForCommit, CheckTask, CheckSigned, SetStatusFinished, ReadForFinal,
     SetStatusFinal, Produce, TypeOK
<1>1. Fine
  <2> USE DEF CopyPhases, Signs, Over, Phases, Commits
  <2>1. CASE ReadForCommit(r)
    <3>1. request'[r].pc = "task"
      BY <2>1 DEF ReadForCommit, Begin, Becomes, NoRequest, TypeOK
    <3> QED
      BY <3>1
  <2>2. CASE CheckTask(r)
    <3>1. CASE task.finished \/ document.file = NoFile
      BY <2>2, <3>1, Stopping DEF CheckTask
    <3>2. CASE ~(task.finished \/ document.file = NoFile)
      <4>1. Becomes(r, [request[r] EXCEPT !.pc = "check", !.signers = task.signers])
        BY <2>2, <3>2 DEF CheckTask
      <4>2. request'[r].signers = task.signers
        BY <4>1 DEF Becomes, TypeOK, Request
      <4> QED
        BY <4>2
    <3> QED
      BY <3>1, <3>2
  <2>3. CASE CheckSigned(r)
    BY <2>3, GoingTo, Stopping DEF CheckSigned
  <2>4. CASE SetStatusFinished(r)
    BY <2>4, GoingTo, Stopping DEF SetStatusFinished
  <2>5. CASE ReadForFinal(r)
    <3>1. request'[r].pc = "setfinal"
      BY <2>5 DEF ReadForFinal, Becomes, TypeOK, Request
    <3> QED
      BY <3>1
  <2>6. CASE SetStatusFinal(r)
    BY <2>6, GoingTo DEF SetStatusFinal
  <2>7. CASE Produce(r)
    BY <2>7, Stopping DEF Produce
  <2> QED
    BY <2>1, <2>2, <2>3, <2>4, <2>5, <2>6, <2>7 DEF CommitStep
<1> HIDE DEF Fine
<1>2. history \subseteq history'
  BY HistoryGrows DEF Next
<1>3. \A q \in Requests : q # r => request'[q] = request[q]
  BY CommitMoves DEF Moves
<1> QED
  BY <1>0, <1>1, <1>2, <1>3 DEF FreshCopies, Fine

\* Nobody is at work on a task whose signers are set, or it is remembered.
LEMMA CopiesSet ==
  ASSUME TypeOK, NEW signers \in SignerLists, SetSigners(signers)
  PROVE  FreshCopies' /\ ("resign" \notin history' => signatures = <<>>)
<1>1. "resign" \notin history' => signatures = <<>> /\ \A q \in Requests : ~AtWork(q)
  BY DEF SetSigners, Noted
<1>2. UNCHANGED request
  BY DEF SetSigners
<1> QED
  BY <1>1, <1>2 DEF FreshCopies, AtWork, CopyPhases, Signs

LEMMA CopiesNext ==
  ASSUME TypeOK, FreshCopies, [Next]_vars
  PROVE  FreshCopies'
<1>1. ASSUME NEW r \in Requests, EditStep(r) \/ SignStep(r) \/ CommitStep(r) PROVE FreshCopies'
  BY <1>1, CopiesEdit, CopiesSign, CopiesCommit
<1>2. ASSUME NEW r \in Requests, RequestStops(r) PROVE FreshCopies'
  BY <1>2, StopMoves DEF FreshCopies, Moves, CopyPhases, Signs
<1>3. ASSUME NEW signers \in SignerLists, SetSigners(signers) PROVE FreshCopies'
  BY <1>3, CopiesSet
<1>4. CASE KeyExpires
  BY <1>4 DEF KeyExpires, FreshCopies
<1>5. CASE UNCHANGED vars
  BY <1>5 DEF vars, FreshCopies
<1> QED
  BY <1>1, <1>2, <1>3, <1>4, <1>5 DEF Next

Unchecked == {"recheck", "reset", "unchecked"}

\* Nothing is out of order where there are no signatures.
LEMMA NoneInOrder == signatures = <<>> => \A signers \in Seq(Users) : ~WrongOrder(signers)
  BY DEF WrongOrder

LEMMA OrderSign ==
  ASSUME TypeOK, FreshCopies, SignedInOrder, NEW r \in Requests, SignStep(r)
  PROVE  SignedInOrder'
<1> USE DEF Over, Phases, Signs, Commits, At
<1>0. /\ \A q \in Requests : q # r => request'[q] = request[q]
      /\ UNCHANGED task
      /\ history \subseteq history'
  BY SignMoves, HistoryGrows DEF Moves, Next
<1>1. CASE CreateSignature(r)
  <2>1. request'[r].pc = "recheck"
    BY <1>1, GoingTo DEF CreateSignature
  <2> QED
    BY <2>1 DEF SignedInOrder
<1>2. CASE Recheck(r)
  <2>1. "resign" \notin history => ~WrongOrder(task.signers)
    <3>1. "resign" \notin history => request[r].signers = task.signers
      BY <1>2 DEF Recheck, FreshCopies, CopyPhases
    <3>2. task.signers = <<>> => ~WrongOrder(task.signers)
      BY DEF WrongOrder
    <3> QED
      BY <1>2, <3>1, <3>2 DEF Recheck
  <2>2. UNCHANGED <<signatures, history>>
    BY <1>2 DEF Recheck
  <2> QED
    BY <1>0, <2>1, <2>2 DEF SignedInOrder, WrongOrder
<1>3. CASE RecheckFails(r)
  <2>1. request'[r].pc = "reset"
    BY <1>3, GoingTo DEF RecheckFails
  <2> QED
    BY <2>1 DEF SignedInOrder
<1>4. CASE ResetSignatures(r) \/ DeleteDocumentSigns(r)
  <2>1. signatures' = <<>>
    BY <1>4 DEF ResetSignatures, DeleteDocumentSigns, DeleteByDocumentId
  <2> QED
    BY <2>1 DEF SignedInOrder, WrongOrder
<1>5. CASE \/ \E user \in Users, commit \in BOOLEAN : ReadForSign(r, user, commit)
           \/ CheckTurn(r) \/ GetDataForSign(r) \/ ReadForDelete(r)
  <2>1. UNCHANGED signatures /\ request[r].pc \notin Unchecked
    BY <1>5 DEF ReadForSign, CheckTurn, GetDataForSign, ReadForDelete, Begin, Unchecked
  <2> QED
    BY <1>0, <2>1 DEF SignedInOrder, Unchecked, WrongOrder
<1> QED
  BY <1>1, <1>2, <1>3, <1>4, <1>5 DEF SignStep

LEMMA OrderNext ==
  ASSUME TypeOK, FreshCopies, SignedInOrder, [Next]_vars
  PROVE  SignedInOrder'
<1>0. history \subseteq history'
  BY HistoryGrows
<1>1. ASSUME NEW r \in Requests, EditStep(r) PROVE SignedInOrder'
  <2>1. signatures' = signatures \/ signatures' = <<>>
    BY <1>1 DEF EditStep, ReadForUpdate, CheckUnsigned, UpdateData, ReadForPdf, MarkGenerating,
       QueuePdf, TakePdfMessage, CreatePdf, Withdraw, DeleteByDocumentId, AddDocumentFile,
       PdfMessageDone, PdfMessageFails, PdfMessageReturns
  <2>2. /\ UNCHANGED task /\ request[r].pc \notin Unchecked
        /\ \A q \in Requests : q # r => request'[q] = request[q]
    BY <1>1, EditMoves DEF Moves, Edits, Unchecked
  <2> QED
    BY <1>0, <2>1, <2>2 DEF SignedInOrder, Unchecked, WrongOrder
<1>2. ASSUME NEW r \in Requests, SignStep(r) PROVE SignedInOrder'
  BY <1>2, OrderSign
<1>3. ASSUME NEW r \in Requests, CommitStep(r) PROVE SignedInOrder'
  <2>1. /\ UNCHANGED signatures /\ task'.signers = task.signers
        /\ request[r].pc \notin Unchecked
        /\ \A q \in Requests : q # r => request'[q] = request[q]
    BY <1>3, CommitMoves, CopiesCommit DEF Moves, Commits, Unchecked
  <2> QED
    BY <1>0, <2>1 DEF SignedInOrder, Unchecked, WrongOrder
<1>4. ASSUME NEW r \in Requests, RequestStops(r) PROVE SignedInOrder'
  <2>1. /\ UNCHANGED <<signatures, task, history>>
        /\ request[r].pc \in {"recheck", "reset"} => request'[r].pc = "unchecked"
        /\ request[r].pc # "unchecked"
        /\ \A q \in Requests : q # r => request'[q] = request[q]
    BY <1>4, StopMoves DEF Moves, RequestStops, AtWork
  <2> QED
    BY <2>1 DEF SignedInOrder, WrongOrder
<1>5. ASSUME NEW signers \in SignerLists, SetSigners(signers) PROVE SignedInOrder'
  <2>1. UNCHANGED signatures /\ ("resign" \notin history' => signatures = <<>>)
    BY <1>5, CopiesSet DEF SetSigners
  <2> QED
    BY <2>1 DEF SignedInOrder, WrongOrder
<1>6. CASE KeyExpires
  BY <1>6 DEF KeyExpires, SignedInOrder, WrongOrder
<1>7. CASE UNCHANGED vars
  BY <1>7 DEF vars, SignedInOrder, WrongOrder
<1> QED
  BY <1>1, <1>2, <1>3, <1>4, <1>5, <1>6, <1>7 DEF Next

LEMMA CopiesInit == Init => FreshCopies
  BY DEF Init, FreshCopies, NoRequest, CopyPhases, Signs

(***************************************************************************)
(* Any number of sign requests that find it their turn at the same time    *)
(* leave, when all have done their second check, signatures in the order   *)
(* of the signers, or none.                                                *)
(***************************************************************************)
THEOREM OrderRestored == Spec => []SignedInOrder
<1>1. Init => SignedInOrder
  BY DEF Init, SignedInOrder, WrongOrder
<1>2. TypeOK /\ FreshCopies /\ [Next]_vars => FreshCopies'
  BY CopiesNext
<1>3. TypeOK /\ FreshCopies /\ SignedInOrder /\ [Next]_vars => SignedInOrder'
  BY OrderNext
<1> QED
  BY <1>1, <1>2, <1>3, CopiesInit, TypesHold, PTL DEF Spec

--------------------------------------------------------------------------------
(* The signatures of a task that is done *)

\* What a commit has counted stays, unless signatures or signers are changed.
Counted == task.finished \/ \E q \in Requests : At(q, "finish")
CountedIsSigned ==
  ("resign" \notin history /\ "withdrawn" \notin history /\ Counted)
    => SignedEnough(task.signers)

LEMMA RowsOfSeq == ASSUME NEW S, NEW s \in Seq(S)  PROVE \A i \in DOMAIN s : s[i] \in S
  OBVIOUS

\* One more signature does not undo what the signatures have been enough for.
LEMMA EnoughStays ==
  ASSUME NEW row, signatures \in Seq([by : Users, file : Nat, data : Data]),
         signatures' = Append(signatures, row),
         task.signers \in Seq(Users), task'.signers = task.signers,
         SignedEnough(task.signers)
  PROVE  SignedEnough(task.signers)'
<1> DEFINE n == Cardinality(SignedBy)
           m == Cardinality(SignedBy')
           k == Cardinality({task.signers[i] : i \in DOMAIN task.signers})
<1>1. SignedBy \subseteq SignedBy' /\ SignedBy' \subseteq SignedBy \cup {row.by}
  <2>1. \A i \in DOMAIN signatures : i \in DOMAIN signatures' /\ signatures'[i] = signatures[i]
    OBVIOUS
  <2>2. \A i \in DOMAIN signatures' : i \in DOMAIN signatures \/ signatures'[i] = row
    OBVIOUS
  <2> QED
    BY <2>1, <2>2 DEF SignedBy
<1>2. IsFiniteSet(SignedBy')
  <2>1. SignedBy \subseteq Users
    <3>1. \A i \in DOMAIN signatures : signatures[i].by \in Users
      <4>1. TAKE i \in DOMAIN signatures
      <4>2. signatures[i] \in [by : Users, file : Nat, data : Data]
        BY RowsOfSeq
      <4> QED
        BY <4>2, Zenon
    <3> QED
      BY <3>1, Zenon DEF SignedBy
  <2>2. IsFiniteSet(SignedBy)
    BY <2>1, SigningAssumption, FS_Subset
  <2>3. IsFiniteSet(SignedBy \cup {row.by})
    BY <2>2, FS_AddElement
  <2> QED
    BY <1>1, <2>3, FS_Subset
<1>3. n \in Nat /\ m \in Nat /\ n <= m
  <2>1. IsFiniteSet(SignedBy) /\ n <= m
    BY <1>1, <1>2, FS_Subset
  <2> QED
    BY <1>2, <2>1, FS_CardinalityType
<1>4. SignedByAll(task.signers) => SignedByAll(task.signers)'
  BY <1>1 DEF SignedByAll
<1>5. LimitRaised(task.signers) => LimitRaised(task.signers)'
  <2>1. k \in Nat
    <3>1. IsFiniteSet({task.signers[i] : i \in DOMAIN task.signers})
      BY SigningAssumption, FS_Subset
    <3> QED
      BY <3>1, FS_CardinalityType
  <2>2. MinPercent * k \in Int
    BY <2>1, SigningAssumption
  <2>3. 100 * n >= MinPercent * k => 100 * m >= MinPercent * k
    <3> DEFINE l == MinPercent * k
    <3>1. l \in Int
      BY <2>2
    <3> HIDE DEF l, n, m
    <3>2. 100 * n >= l => 100 * m >= l
      BY <1>3, <3>1
    <3> QED
      BY <3>2 DEF l
  <2>4. task'.signers # <<>> <=> task.signers # <<>>
    OBVIOUS
  <2> QED
    BY <2>3, <2>4 DEF LimitRaised
<1>6. signatures' # <<>>
  OBVIOUS
<1> QED
  BY <1>4, <1>5, <1>6 DEF SignedEnough

\* A step that counts nothing itself.
LEMMA StillSigned ==
  ASSUME CountedIsSigned, history \subseteq history', task.signers \in Seq(Users),
         task'.signers = task.signers,
         Counted' => Counted,
         \/ UNCHANGED signatures
         \/ \E row : signatures \in Seq([by : Users, file : Nat, data : Data])
                     /\ signatures' = Append(signatures, row)
         \/ DeleteByDocumentId
  PROVE  CountedIsSigned'
<1> SUFFICES ASSUME "resign" \notin history', "withdrawn" \notin history', Counted'
             PROVE  SignedEnough(task.signers)'
  BY DEF CountedIsSigned
<1>1. SignedEnough(task.signers)
  BY DEF CountedIsSigned
<1>2. CASE UNCHANGED signatures
  BY <1>1, <1>2 DEF SignedEnough, SignedByAll, LimitRaised, SignedBy
<1>3. ASSUME NEW row, signatures \in Seq([by : Users, file : Nat, data : Data]),
             signatures' = Append(signatures, row)
      PROVE  SignedEnough(task.signers)'
  <2>1. signatures' # <<>>
    BY <1>3
  <2> QED
    BY <1>1, <1>3, <2>1, EnoughStays
<1>4. CASE DeleteByDocumentId
  <2>1. signatures = <<>>
    BY <1>4 DEF DeleteByDocumentId, NoteWithdrawal, Noted, Counted
  <2> QED
    BY <1>1, <2>1 DEF SignedEnough
<1> QED
  BY <1>2, <1>3, <1>4

LEMMA CountedNext ==
  ASSUME TypeOK, FreshCopies, CountedIsSigned, [Next]_vars
  PROVE  CountedIsSigned'
<1>0. history \subseteq history' /\ task.signers \in Seq(Users)
  BY HistoryGrows DEF TypeOK
<1>1. ASSUME NEW r \in Requests, EditStep(r) PROVE CountedIsSigned'
  <2>1. UNCHANGED signatures \/ DeleteByDocumentId
    BY <1>1 DEF EditStep, ReadForUpdate, CheckUnsigned, UpdateData, ReadForPdf, MarkGenerating,
       QueuePdf, TakePdfMessage, CreatePdf, Withdraw, AddDocumentFile,
       PdfMessageDone, PdfMessageFails, PdfMessageReturns
  <2>2. UNCHANGED task /\ (Counted' => Counted)
    BY <1>1, EditMoves DEF Moves, Edits, Counted, At
  <2> QED
    BY <1>0, <2>1, <2>2, StillSigned
<1>2. ASSUME NEW r \in Requests, SignStep(r) PROVE CountedIsSigned'
  <2>1. \/ UNCHANGED signatures \/ DeleteByDocumentId
        \/ \E row : signatures' = Append(signatures, row)
    BY <1>2 DEF SignStep, ReadForSign, CheckTurn, GetDataForSign, CreateSignature, Recheck,
       RecheckFails, ResetSignatures, ReadForDelete, DeleteDocumentSigns
  <2>2. UNCHANGED task /\ (Counted' => Counted)
    BY <1>2, SignMoves DEF Moves, Signs, Counted, At
  <2>3. signatures \in Seq([by : Users, file : Nat, data : Data])
    BY DEF TypeOK
  <2> QED
    BY <1>0, <2>1, <2>2, <2>3, StillSigned
<1>3. ASSUME NEW r \in Requests, CommitStep(r) PROVE CountedIsSigned'
  <2>0. /\ \A q \in Requests : q # r => request'[q] = request[q]
        /\ task'.signers = task.signers /\ UNCHANGED signatures
    BY <1>3, CommitMoves, CopiesCommit DEF Moves
  <2>1. CASE CheckSigned(r)
    <3>1. CASE SignedEnough(request[r].signers)
      <4>1. "resign" \notin history => request[r].signers = task.signers
        BY <2>1 DEF CheckSigned, At, FreshCopies, CopyPhases
      <4> QED
        BY <1>0, <2>0, <3>1, <4>1 DEF CountedIsSigned, SignedEnough, SignedByAll,
                                     LimitRaised, SignedBy
    <3>2. CASE ~SignedEnough(request[r].signers)
      <4>1. request'[r].pc = "done" /\ UNCHANGED task
        BY <2>1, <3>2, Stopping DEF CheckSigned, Over, Phases
      <4>2. Counted' => Counted
        BY <2>0, <4>1 DEF Counted, At
      <4> QED
        BY <1>0, <2>0, <4>2, StillSigned
    <3> QED
      BY <3>1, <3>2
  <2>2. CASE SetStatusFinished(r)
    <3>1. Counted
      BY <2>2 DEF SetStatusFinished, Counted
    <3> QED
      BY <1>0, <2>0, <3>1, StillSigned
  <2>3. CASE ReadForCommit(r) \/ CheckTask(r) \/ ReadForFinal(r) \/ SetStatusFinal(r) \/ Produce(r)
    <3>1. UNCHANGED task
      BY <2>3 DEF ReadForCommit, CheckTask, ReadForFinal, SetStatusFinal, Produce
    <3>2. request'[r].pc # "finish"
      <4>1. CASE ReadForCommit(r)
        BY <4>1 DEF ReadForCommit, Becomes, Begin, NoRequest, TypeOK
      <4>2. CASE CheckTask(r)
        BY <4>2, CheckTaskLeads
      <4>3. CASE ReadForFinal(r)
        BY <4>3 DEF ReadForFinal, Becomes, TypeOK, Request
      <4>4. CASE SetStatusFinal(r) \/ Produce(r)
        BY <4>4, GoingTo, Stopping DEF SetStatusFinal, Produce, Over, Phases, Commits
      <4> QED
        BY <2>3, <4>1, <4>2, <4>3, <4>4
    <3>3. Counted' => Counted
      BY <2>0, <3>1, <3>2 DEF Counted, At
    <3> QED
      BY <1>0, <2>0, <3>3, StillSigned
  <2> QED
    BY <1>3, <2>1, <2>2, <2>3 DEF CommitStep
<1>4. ASSUME NEW r \in Requests, RequestStops(r) PROVE CountedIsSigned'
  <2>1. UNCHANGED <<signatures, task>> /\ (Counted' => Counted)
    BY <1>4, StopMoves DEF Moves, Counted, At
  <2> QED
    BY <1>0, <2>1, StillSigned
<1>5. ASSUME NEW signers \in SignerLists, SetSigners(signers) PROVE CountedIsSigned'
  <2>1. "resign" \notin history' => signatures = <<>> /\ \A q \in Requests : ~AtWork(q)
    BY <1>5 DEF SetSigners, Noted
  <2>2. Counted' => Counted
    BY <1>5 DEF SetSigners, Counted, At, TypeOK
  <2>3. "resign" \notin history' /\ "withdrawn" \notin history' => ~Counted
    BY <1>0, <1>5, <2>1 DEF CountedIsSigned, SignedEnough, Counted, At, AtWork, SetSigners, Noted
  <2> QED
    BY <2>2, <2>3 DEF CountedIsSigned
<1>6. CASE KeyExpires
  BY <1>6 DEF KeyExpires, CountedIsSigned, Counted, At, SignedEnough, SignedByAll,
              LimitRaised, SignedBy
<1>7. CASE UNCHANGED vars
  BY <1>7 DEF vars, CountedIsSigned, Counted, At, SignedEnough, SignedByAll,
              LimitRaised, SignedBy
<1> QED
  BY <1>1, <1>2, <1>3, <1>4, <1>5, <1>6, <1>7 DEF Next

(***************************************************************************)
(* A task that is done bears the signature of every signer, or as many as  *)
(* minSignaturesLimit asks for, unless some were deleted or the signers    *)
(* were set anew after they had been counted.                              *)
(***************************************************************************)
THEOREM DoneIsSigned == Spec => []CommittedIsSigned
<1>1. Init => CountedIsSigned
  BY DEF Init, CountedIsSigned, Counted, At, NoRequest
<1>2. TypeOK /\ FreshCopies /\ [Next]_vars => FreshCopies'
  BY CopiesNext
<1>3. TypeOK /\ FreshCopies /\ CountedIsSigned /\ [Next]_vars => CountedIsSigned'
  BY CountedNext
<1>4. CountedIsSigned => CommittedIsSigned
  BY DEF CountedIsSigned, Counted, CommittedIsSigned
<1> QED
  BY <1>1, <1>2, <1>3, <1>4, CopiesInit, TypesHold, PTL DEF Spec

--------------------------------------------------------------------------------
(* Signatures and the current PDF and data *)

\* An update or a PDF has no other request beside it.
EditsAlone ==
  "overlap" \notin history =>
    \A r, q \in Requests : (request[r].pc \in Edits /\ AtWork(q)) => q = r

LEMMA BeginNotes ==
  ASSUME TypeOK, EditsAlone, NEW r \in Requests, EditStep(r), "overlap" \notin history'
  PROVE  "overlap" \notin history /\ \A q \in Requests : q # r => ~AtWork(q)
<1>1. "overlap" \notin history
  BY HistoryGrows DEF Next
<1>2. CASE At(r, "new")
  <2>1. \/ ReadForUpdate(r)
        \/ \E large \in BOOLEAN : ReadForPdf(r, large)
    BY <1>2 DEF EditStep, At, CheckUnsigned, UpdateData, MarkGenerating, QueuePdf, TakePdfMessage,
       CreatePdf, AddDocumentFile, PdfMessageDone, PdfMessageFails, PdfMessageReturns
  <2>2. NoteEdit
    BY <2>1 DEF ReadForUpdate, ReadForPdf
  <2> QED
    BY <1>1, <2>2 DEF NoteEdit, Noted
<1>3. CASE ~At(r, "new")
  <2>1. request[r].pc \in Edits
    BY <1>3, EditMoves DEF Moves, At
  <2> QED
    BY <1>1, <2>1 DEF EditsAlone
<1> QED
  BY <1>2, <1>3

LEMMA OthersNote ==
  ASSUME TypeOK, EditsAlone, NEW r \in Requests, SignStep(r) \/ CommitStep(r),
         "overlap" \notin history'
  PROVE  "overlap" \notin history /\ \A q \in Requests : request[q].pc \notin Edits
<1>1. "overlap" \notin history
  BY HistoryGrows DEF Next
<1>2. CASE At(r, "new")
  <2>1. \/ \E user \in Users, commit \in BOOLEAN : ReadForSign(r, user, commit)
        \/ ReadForDelete(r) \/ ReadForCommit(r)
    BY <1>2 DEF SignStep, CommitStep, At, CheckTurn, GetDataForSign, CreateSignature, Recheck,
       RecheckFails, ResetSignatures, DeleteDocumentSigns, CheckTask, CheckSigned,
       SetStatusFinished, ReadForFinal, SetStatusFinal, Produce
  <2>2. NoteOther
    BY <2>1 DEF ReadForSign, ReadForDelete, ReadForCommit
  <2> QED
    BY <1>1, <2>2 DEF NoteOther, Noted
<1>3. CASE ~At(r, "new")
  <2>1. request[r].pc \in {"delete"} \cup Signs \cup Commits
    BY <1>3, SignMoves, CommitMoves DEF Moves, At
  <2>2. AtWork(r) /\ request[r].pc \notin Edits
    BY <2>1 DEF AtWork, Signs, Commits, Edits
  <2> QED
    BY <1>1, <2>2 DEF EditsAlone
<1> QED
  BY <1>2, <1>3

LEMMA AloneNext ==
  ASSUME TypeOK, EditsAlone, [Next]_vars
  PROVE  EditsAlone'
<1>0. history \subseteq history'
  BY HistoryGrows
<1>1. ASSUME NEW r \in Requests, EditStep(r) PROVE EditsAlone'
  <2>1. \A q \in Requests : q # r => request'[q] = request[q]
    BY <1>1, EditMoves DEF Moves
  <2>2. "overlap" \notin history' => \A q \in Requests : q # r => ~AtWork(q)
    BY <1>1, BeginNotes
  <2>3. "overlap" \notin history' => \A q \in Requests : q # r => ~AtWork(q)' /\ request'[q].pc \notin Edits
    BY <2>1, <2>2 DEF AtWork, Edits
  <2> QED
    BY <2>3 DEF EditsAlone
<1>2. ASSUME NEW r \in Requests, SignStep(r) \/ CommitStep(r) PROVE EditsAlone'
  <2>1. /\ \A q \in Requests : q # r => request'[q] = request[q]
        /\ request'[r].pc \notin Edits
    BY <1>2, SignMoves, CommitMoves DEF Moves, Signs, Commits, Edits
  <2>2. "overlap" \notin history' => \A q \in Requests : request[q].pc \notin Edits
    BY <1>2, OthersNote
  <2> QED
    BY <2>1, <2>2 DEF EditsAlone
<1>3. ASSUME NEW r \in Requests, RequestStops(r) PROVE EditsAlone'
  <2>1. /\ \A q \in Requests : q # r => request'[q] = request[q]
        /\ request'[r].pc \in {"done", "unchecked"} /\ UNCHANGED history
    BY <1>3, StopMoves DEF Moves
  <2> QED
    BY <2>1 DEF EditsAlone, AtWork, Edits
<1>4. ASSUME NEW signers \in SignerLists, SetSigners(signers) PROVE EditsAlone'
  BY <1>0, <1>4 DEF SetSigners, EditsAlone, AtWork
<1>5. CASE KeyExpires
  BY <1>5 DEF KeyExpires, EditsAlone, AtWork
<1>6. CASE UNCHANGED vars
  BY <1>6 DEF vars, EditsAlone, AtWork
<1> QED
  BY <1>1, <1>2, <1>3, <1>4, <1>5, <1>6 DEF Next

\* What a request has read of the document is still so, and a request that
\* writes data or a PDF has seen to it that nothing is signed.
Ordered == task.signers # <<>> /\ "resign" \notin history
RequestIsCurrent(r) ==
  /\ request[r].pc \in {"pdf", "store", "setfinal", "insert"} => request[r].data = document.data
  /\ request[r].pc = "insert" => IsFile(document.file) /\ request[r].file = document.file.id
  /\ request[r].pc = "write" => signatures = <<>>
  /\ (request[r].pc = "store" /\ Ordered) => signatures = <<>>
SignaturesAreCurrent ==
  \A i \in DOMAIN signatures :
    /\ signatures[i].data = document.data
    /\ (Ordered /\ IsFile(document.file)) => signatures[i].file = document.file.id
FileIsCurrent == IsFile(document.file) => document.file.data = document.data
AllCurrent ==
  "overlap" \notin history =>
    FileIsCurrent /\ SignaturesAreCurrent /\ \A r \in Requests : RequestIsCurrent(r)

LEMMA CurrentEdit ==
  ASSUME TypeOK, FreshCopies, EditsAlone, AllCurrent, NEW r \in Requests, EditStep(r)
  PROVE  AllCurrent'
<1> SUFFICES ASSUME "overlap" \notin history'
             PROVE  /\ FileIsCurrent' /\ SignaturesAreCurrent'
                    /\ \A q \in Requests : RequestIsCurrent(q)'
  BY DEF AllCurrent
<1>1. /\ "overlap" \notin history
      /\ \A q \in Requests : q # r => ~AtWork(q)
  BY BeginNotes
<1>2. FileIsCurrent /\ SignaturesAreCurrent /\ RequestIsCurrent(r)
  BY <1>1 DEF AllCurrent
<1>3. UNCHANGED task /\ \A q \in Requests : q # r => request'[q] = request[q]
  BY EditMoves DEF Moves
<1>4. Ordered' => Ordered
  BY <1>3, HistoryGrows DEF Ordered, Next
<1>5. \A q \in Requests : q # r => RequestIsCurrent(q)'
  BY <1>1, <1>3 DEF RequestIsCurrent, AtWork
<1>6. ASSUME UNCHANGED <<document, signatures>> PROVE FileIsCurrent' /\ SignaturesAreCurrent'
  BY <1>2, <1>4, <1>6 DEF FileIsCurrent, SignaturesAreCurrent
<1>7. ASSUME UNCHANGED signatures, document'.data = document.data, ~IsFile(document.file)'
      PROVE  FileIsCurrent' /\ SignaturesAreCurrent'
  BY <1>2, <1>7 DEF FileIsCurrent, SignaturesAreCurrent
<1>8. ASSUME signatures' = <<>> PROVE SignaturesAreCurrent'
  BY <1>8 DEF SignaturesAreCurrent
<1> DEFINE Fine == FileIsCurrent' /\ SignaturesAreCurrent' /\ RequestIsCurrent(r)'
<1>9. Fine
  <2> USE DEF Over, At, Phases, Edits
  <2>1. CASE ReadForUpdate(r)
    <3>1. request'[r].pc = "unsigned"
      BY <2>1 DEF ReadForUpdate, Begin, Becomes, NoRequest, TypeOK
    <3> QED
      BY <1>6, <2>1, <3>1 DEF ReadForUpdate, RequestIsCurrent
  <2>2. CASE CheckUnsigned(r)
    <3>1. \/ request'[r].pc = "write" /\ signatures = <<>>
          \/ request'[r].pc = "done"
      BY <2>2, GoingTo, Stopping DEF CheckUnsigned
    <3> QED
      BY <1>6, <2>2, <3>1 DEF CheckUnsigned, RequestIsCurrent
  <2>3. CASE UpdateData(r)
    <3>1. signatures = <<>> /\ UNCHANGED signatures
      BY <1>2, <2>3 DEF UpdateData, RequestIsCurrent
    <3>2. request'[r].pc = "done"
      BY <2>3, Stopping DEF UpdateData
    <3>3. ~IsFile(document.file)'
      BY <2>3 DEF UpdateData, IsFile, TypeOK
    <3> QED
      BY <1>8, <3>1, <3>2, <3>3 DEF FileIsCurrent, RequestIsCurrent
  <2>4. ASSUME NEW large \in BOOLEAN, ReadForPdf(r, large) PROVE Fine
    <3>1. request'[r].pc \in {"mark", "pdf"} /\ request'[r].data = document.data
      BY <2>4 DEF ReadForPdf, Begin, Becomes, NoRequest, TypeOK
    <3>2. UNCHANGED <<document, signatures>>
      BY <2>4 DEF ReadForPdf
    <3> QED
      BY <1>6, <3>1, <3>2 DEF RequestIsCurrent
  <2>5. CASE MarkGenerating(r)
    <3>1. request'[r].pc = "queue"
      BY <2>5, GoingTo DEF MarkGenerating
    <3>2. ~IsFile(document.file)' /\ document'.data = document.data /\ UNCHANGED signatures
      BY <2>5 DEF MarkGenerating, IsFile, TypeOK
    <3> QED
      BY <1>7, <3>1, <3>2 DEF RequestIsCurrent
  <2>6. CASE QueuePdf(r)
    <3>1. request'[r].pc = "queued"
      BY <2>6, GoingTo DEF QueuePdf
    <3> QED
      BY <1>6, <2>6, <3>1 DEF QueuePdf, RequestIsCurrent
  <2>7. CASE TakePdfMessage(r)
    <3>1. request'[r].pc = "pdf" /\ request'[r].data = document.data
      BY <2>7 DEF TakePdfMessage, Becomes, TypeOK, Request
    <3> QED
      BY <1>6, <2>7, <3>1 DEF TakePdfMessage, RequestIsCurrent
  <2>8. CASE CreatePdf(r)
    <3>1. request'[r].pc = "store" /\ request'[r].data = request[r].data
      BY <2>8 DEF CreatePdf, Becomes, TypeOK, Request
    <3>2. request'[r].data = document.data /\ UNCHANGED document
      BY <1>2, <2>8, <3>1 DEF CreatePdf, RequestIsCurrent
    <3>3. CASE request[r].signers = <<>>
      <4>1. ~Ordered
        BY <2>8, <3>3 DEF CreatePdf, FreshCopies, CopyPhases, Ordered
      <4>2. UNCHANGED signatures
        BY <2>8, <3>3 DEF CreatePdf, Withdraw
      <4> QED
        BY <1>4, <1>6, <3>1, <3>2, <4>1, <4>2 DEF RequestIsCurrent
    <3>4. CASE request[r].signers # <<>>
      <4>1. signatures' = <<>>
        BY <2>8, <3>4 DEF CreatePdf, Withdraw, DeleteByDocumentId
      <4>2. FileIsCurrent'
        BY <1>2, <3>2 DEF FileIsCurrent
      <4> QED
        BY <1>8, <3>1, <3>2, <4>1, <4>2 DEF RequestIsCurrent
    <3> QED
      BY <3>3, <3>4
  <2>9. CASE AddDocumentFile(r)
    <3>1. request'[r].pc \in {"attach", "done"}
      BY <2>9, GoingTo, Stopping DEF AddDocumentFile
    <3>2. document'.data = document.data /\ document'.file.data = request[r].data
      BY <2>9 DEF AddDocumentFile, TypeOK
    <3>3. document'.data = document'.file.data
      BY <1>2, <2>9, <3>2 DEF AddDocumentFile, RequestIsCurrent
    <3>4. UNCHANGED signatures /\ (Ordered => signatures = <<>>)
      BY <1>2, <2>9 DEF AddDocumentFile, RequestIsCurrent
    <3>5. SignaturesAreCurrent'
      <4>1. CASE Ordered
        BY <1>8, <3>4, <4>1
      <4>2. CASE ~Ordered
        BY <1>2, <1>4, <3>2, <3>4, <4>2 DEF SignaturesAreCurrent
      <4> QED
        BY <4>1, <4>2
    <3> QED
      BY <3>1, <3>3, <3>5 DEF FileIsCurrent, RequestIsCurrent
  <2>10. CASE PdfMessageDone(r)
    <3>1. request'[r].pc = "done"
      BY <2>10, Stopping DEF PdfMessageDone
    <3> QED
      BY <1>6, <2>10, <3>1 DEF PdfMessageDone, RequestIsCurrent
  <2>11. CASE PdfMessageFails(r)
    <3>1. request'[r].pc = "ack"
      BY <2>11, GoingTo DEF PdfMessageFails
    <3>2. ~IsFile(document.file)' /\ document'.data = document.data /\ UNCHANGED signatures
      BY <2>11 DEF PdfMessageFails, IsFile, TypeOK
    <3> QED
      BY <1>7, <3>1, <3>2 DEF RequestIsCurrent
  <2>12. CASE PdfMessageReturns(r)
    <3>1. request'[r].pc = "queued"
      BY <2>12, GoingTo DEF PdfMessageReturns
    <3> QED
      BY <1>6, <2>12, <3>1 DEF PdfMessageReturns, RequestIsCurrent
  <2> QED
    BY <2>1, <2>2, <2>3, <2>4, <2>5, <2>6, <2>7, <2>8, <2>9, <2>10, <2>11, <2>12 DEF EditStep
<1> QED
  BY <1>5, <1>9

LEMMA CurrentSign ==
  ASSUME TypeOK, EditsAlone, AllCurrent, NEW r \in Requests, SignStep(r)
  PROVE  AllCurrent'
<1> SUFFICES ASSUME "overlap" \notin history'
             PROVE  /\ FileIsCurrent' /\ SignaturesAreCurrent'
                    /\ \A q \in Requests : RequestIsCurrent(q)'
  BY DEF AllCurrent
<1>1. "overlap" \notin history /\ \A q \in Requests : request[q].pc \notin Edits
  BY OthersNote
<1>2. FileIsCurrent /\ SignaturesAreCurrent /\ \A q \in Requests : RequestIsCurrent(q)
  BY <1>1 DEF AllCurrent
<1>3. /\ UNCHANGED <<document, task>>
      /\ \A q \in Requests : q # r => request'[q] = request[q]
      /\ request'[r].pc \in {"done", "delete", "task"} \cup Signs
  BY SignMoves DEF Moves
<1>4. Ordered' => Ordered
  BY <1>3, HistoryGrows DEF Ordered, Next
<1>5. FileIsCurrent'
  BY <1>2, <1>3 DEF FileIsCurrent
<1>6. \A q \in Requests : q # r => RequestIsCurrent(q)'
  BY <1>1, <1>2, <1>3 DEF RequestIsCurrent, Edits
<1>7. RequestIsCurrent(r)'
  <2>1. CASE GetDataForSign(r)
    <3>1. CASE IsFile(document.file)
      <4>1. Becomes(r, [request[r] EXCEPT !.pc = "insert", !.file = document.file.id,
                                          !.data = document.file.data])
        BY <2>1, <3>1 DEF GetDataForSign
      <4>2. /\ request'[r].pc = "insert" /\ request'[r].file = document.file.id
            /\ request'[r].data = document.file.data
        BY <4>1 DEF Becomes, TypeOK, Request
      <4> QED
        BY <1>2, <1>3, <3>1, <4>2 DEF FileIsCurrent, RequestIsCurrent
    <3>2. CASE ~IsFile(document.file)
      <4>1. request'[r].pc = "done"
        BY <2>1, <3>2, Stopping DEF GetDataForSign, Over, Phases
      <4> QED
        BY <4>1 DEF RequestIsCurrent
    <3> QED
      BY <3>1, <3>2
  <2>2. ASSUME NEW user \in Users, NEW commit \in BOOLEAN, ReadForSign(r, user, commit)
        PROVE  RequestIsCurrent(r)'
    <3>1. request'[r].pc = "order"
      BY <2>2 DEF ReadForSign, Begin, Becomes, NoRequest, TypeOK
    <3> QED
      BY <3>1 DEF RequestIsCurrent
  <2>3. CASE CheckTurn(r) \/ CreateSignature(r) \/ Recheck(r) \/ RecheckFails(r)
             \/ ResetSignatures(r) \/ DeleteDocumentSigns(r)
    <3>1. request'[r].pc \in {"file", "recheck", "task", "reset", "done"}
      BY <2>3, GoingTo, Stopping DEF CheckTurn, CreateSignature, Recheck, RecheckFails, AfterSign,
         ResetSignatures, DeleteDocumentSigns, Over, Phases, Signs, Commits
    <3> QED
      BY <3>1 DEF RequestIsCurrent
  <2>4. CASE ReadForDelete(r)
    <3>1. request'[r].pc = "delete"
      BY <2>4 DEF ReadForDelete, Begin, Becomes, NoRequest, TypeOK
    <3> QED
      BY <3>1 DEF RequestIsCurrent
  <2> QED
    BY <2>1, <2>2, <2>3, <2>4 DEF SignStep
<1>8. SignaturesAreCurrent'
  <2>1. CASE CreateSignature(r)
    <3> DEFINE row == [by |-> request[r].user, file |-> request[r].file, data |-> request[r].data]
    <3>0. row \in [by : Users, file : Nat, data : Data]
      BY DEF TypeOK, Request
    <3>1. row.data = document.data /\ row.file = document.file.id
      BY <1>2, <2>1 DEF CreateSignature, At, RequestIsCurrent
    <3>2. signatures \in Seq([by : Users, file : Nat, data : Data])
      BY DEF TypeOK
    <3>3. signatures' = Append(signatures, row)
      BY <2>1 DEF CreateSignature
    <3> HIDE DEF row
    <3>4. \A i \in DOMAIN signatures' : i \in DOMAIN signatures \/ i = Len(signatures) + 1
      BY <3>0, <3>2, <3>3
    <3>5. /\ \A i \in DOMAIN signatures : signatures'[i] = signatures[i]
          /\ signatures'[Len(signatures) + 1] = row
      BY <3>0, <3>2, <3>3
    <3> QED
      BY <1>2, <1>3, <1>4, <3>1, <3>4, <3>5 DEF SignaturesAreCurrent
  <2>2. CASE ~CreateSignature(r)
    <3>1. UNCHANGED signatures \/ signatures' = <<>>
      BY <2>2 DEF SignStep, ReadForSign, CheckTurn, GetDataForSign, Recheck, RecheckFails,
         ResetSignatures, ReadForDelete, DeleteDocumentSigns, DeleteByDocumentId
    <3> QED
      BY <1>2, <1>3, <1>4, <3>1 DEF SignaturesAreCurrent
  <2> QED
    BY <2>1, <2>2
<1> QED
  BY <1>5, <1>6, <1>7, <1>8

LEMMA CurrentCommit ==
  ASSUME TypeOK, FreshCopies, EditsAlone, AllCurrent, NEW r \in Requests, CommitStep(r)
  PROVE  AllCurrent'
<1> SUFFICES ASSUME "overlap" \notin history'
             PROVE  /\ FileIsCurrent' /\ SignaturesAreCurrent'
                    /\ \A q \in Requests : RequestIsCurrent(q)'
  BY DEF AllCurrent
<1>1. "overlap" \notin history /\ \A q \in Requests : request[q].pc \notin Edits
  BY OthersNote
<1>2. FileIsCurrent /\ SignaturesAreCurrent /\ \A q \in Requests : RequestIsCurrent(q)
  BY <1>1 DEF AllCurrent
<1>3. /\ task'.signers = task.signers /\ UNCHANGED signatures
      /\ \A q \in Requests : q # r => request'[q] = request[q]
      /\ request'[r].pc \in {"done"} \cup Commits
  BY CommitMoves, CopiesCommit DEF Moves
<1>4. Ordered' => Ordered
  BY <1>3, HistoryGrows DEF Ordered, Next
<1>5. document'.data = document.data /\ document'.file = document.file
  <2>1. CASE SetStatusFinal(r)
    <3>1. request[r].data = document.data
      BY <1>2, <2>1 DEF SetStatusFinal, At, RequestIsCurrent
    <3> QED
      BY <2>1, <3>1 DEF SetStatusFinal, TypeOK
  <2>2. CASE ~SetStatusFinal(r)
    BY <2>2 DEF CommitStep, ReadForCommit, CheckTask, CheckSigned, SetStatusFinished, ReadForFinal,
       Produce
  <2> QED
    BY <2>1, <2>2
<1>6. FileIsCurrent' /\ SignaturesAreCurrent'
  BY <1>2, <1>3, <1>4, <1>5 DEF FileIsCurrent, SignaturesAreCurrent
<1>7. \A q \in Requests : q # r => RequestIsCurrent(q)'
  BY <1>1, <1>2, <1>3, <1>5 DEF RequestIsCurrent, Edits
<1>8. RequestIsCurrent(r)'
  <2>1. CASE ReadForFinal(r)
    <3>1. request'[r].pc = "setfinal" /\ request'[r].data = document.data
      BY <2>1 DEF ReadForFinal, Becomes, TypeOK, Request
    <3> QED
      BY <1>5, <3>1 DEF RequestIsCurrent
  <2>2. CASE ReadForCommit(r)
    <3>1. request'[r].pc = "task"
      BY <2>2 DEF ReadForCommit, Begin, Becomes, NoRequest, TypeOK
    <3> QED
      BY <3>1 DEF RequestIsCurrent
  <2>3. CASE CheckTask(r)
    BY <2>3, CheckTaskLeads DEF RequestIsCurrent
  <2>4. CASE CheckSigned(r) \/ SetStatusFinished(r) \/ SetStatusFinal(r) \/ Produce(r)
    <3>1. request'[r].pc \in {"finish", "final", "send", "done"}
      BY <2>4, GoingTo, Stopping DEF CheckSigned, SetStatusFinished, SetStatusFinal, Produce, Over,
         Phases, Commits
    <3> QED
      BY <3>1 DEF RequestIsCurrent
  <2> QED
    BY <2>1, <2>2, <2>3, <2>4 DEF CommitStep
<1> QED
  BY <1>6, <1>7, <1>8

LEMMA CurrentNext ==
  ASSUME TypeOK, FreshCopies, EditsAlone, AllCurrent, [Next]_vars
  PROVE  AllCurrent'
<1> USE DEF FileIsCurrent, SignaturesAreCurrent, RequestIsCurrent, Ordered
<1>0. history \subseteq history'
  BY HistoryGrows
<1>1. ASSUME NEW r \in Requests, EditStep(r) \/ SignStep(r) \/ CommitStep(r) PROVE AllCurrent'
  BY <1>1, CurrentEdit, CurrentSign, CurrentCommit
<1>2. ASSUME NEW r \in Requests, RequestStops(r) PROVE AllCurrent'
  <2>1. /\ \A q \in Requests : q # r => request'[q] = request[q]
        /\ request'[r].pc \in {"done", "unchecked"}
        /\ UNCHANGED <<document, signatures, task, history>>
    BY <1>2, StopMoves DEF Moves
  <2> QED
    BY <2>1 DEF AllCurrent
<1>3. ASSUME NEW signers \in SignerLists, SetSigners(signers) PROVE AllCurrent'
  <2>1. UNCHANGED <<document, signatures, request>>
    BY <1>3 DEF SetSigners
  <2>2. "resign" \notin history' => signatures = <<>>
    BY <1>3, CopiesSet
  <2> QED
    BY <1>0, <2>1, <2>2 DEF AllCurrent
<1>4. CASE KeyExpires
  BY <1>4 DEF KeyExpires, AllCurrent
<1>5. CASE UNCHANGED vars
  BY <1>5 DEF vars, AllCurrent
<1> QED
  BY <1>1, <1>2, <1>3, <1>4, <1>5 DEF Next

(***************************************************************************)
(* What is signed is what the document says, however often it is updated   *)
(* and made into a PDF, if nothing else happens meanwhile.                 *)
(***************************************************************************)
THEOREM CurrentIsSigned == Spec => []SignedIsCurrent
<1>1. Init => EditsAlone /\ AllCurrent
  <2> SUFFICES ASSUME Init PROVE EditsAlone /\ AllCurrent
    OBVIOUS
  <2>1. document.file.data = document.data /\ signatures = <<>>
    <3>1. document.data = {} /\ document.file \in {NoFile, [id |-> 0, data |-> {}]}
      BY DEF Init
    <3>2. document.file.data = {}
      BY <3>1 DEF NoFile
    <3> QED
      BY <3>1, <3>2 DEF Init
  <2>2. \A r \in Requests : request[r].pc = "new"
    BY DEF Init, NoRequest
  <2> QED
    BY <2>1, <2>2 DEF EditsAlone, AllCurrent, FileIsCurrent, SignaturesAreCurrent,
       RequestIsCurrent, Edits
<1>2. TypeOK /\ FreshCopies /\ [Next]_vars => FreshCopies'
  BY CopiesNext
<1>3. TypeOK /\ EditsAlone /\ [Next]_vars => EditsAlone'
  BY AloneNext
<1>4. TypeOK /\ FreshCopies /\ EditsAlone /\ AllCurrent /\ [Next]_vars => AllCurrent'
  BY CurrentNext
<1>5. AllCurrent => SignedIsCurrent
  BY DEF AllCurrent, SignaturesAreCurrent, Ordered, SignedIsCurrent
<1> QED
  BY <1>1, <1>2, <1>3, <1>4, <1>5, CopiesInit, TypesHold, PTL DEF Spec

================================================================================
