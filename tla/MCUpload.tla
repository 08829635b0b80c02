---- MODULE MCUpload ----
(*****************************************************************************)
(* The upload of a file and the queue of uploads before it, model-checked in *)
(* one run: a behaviour is of the one or of the other, which does not move.  *)
(*****************************************************************************)
EXTENDS FileUpload

CONSTANTS Transfers, NoTransfer, ReqCap, MaxRestarts

VARIABLES
    part,   \* the part that moves: "file" or "queue"
    at, startsPrint, gone, reqCh, answer, serving, wanted, active, cancelled, printing, restarts

Queue == INSTANCE TransferQueue WITH prints <- startsPrint, result <- answer

queueVars == <<at, startsPrint, gone, reqCh, answer, serving, wanted, active, cancelled, printing, restarts>>
uploadVars == <<part, vars, queueVars>>

UploadInit == Init /\ Queue!Init /\ part \in {"file", "queue"}

OfFile(A) == part = "file" /\ A /\ UNCHANGED <<part, queueVars>>
OfQueue(A) == part = "queue" /\ A /\ UNCHANGED <<part, vars>>

UploadNext == OfFile(Next) \/ OfQueue(Queue!Next)

(* The fairness of both modules.  One part only ever moves, so fairness of a *)
(* disjunction with an action of each is fairness of each.                   *)
UploadSpec ==
    /\ UploadInit /\ [][UploadNext]_uploadVars
    /\ WF_uploadVars(OfFile(UploadStep) \/ OfQueue(Queue!ServiceStep))
    /\ \A r \in Transfers : WF_uploadVars(OfQueue(Queue!TakesResult(r)))

\* TransferQueue: whoever waits is answered, as long as the service is wanted.
WaitersAreAnswered == Queue!WaitersAreAnswered
====
