----------------------------- MODULE ClientCalls -----------------------------
(***************************************************************************)
(* A call of the JavaScript SDK (clients/js/src/client.ts, errors.ts): the *)
(* requests it makes of the server, one after the other, and what it tells *)
(* its caller, when requests and answers are lost, bodies are cut off and  *)
(* the call's signal fires at any moment.  sync() is in SyncMirror.        *)
(***************************************************************************)
EXTENDS Naturals, Sequences, FiniteSets

CONSTANT MaxFailing   \* how many things go wrong in one call

ASSUME FailingAssumption == MaxFailing \in Nat

VARIABLES
    hasKey,     \* whether the client was created with an API key
    operation,  \* the method called, or NoOperation
    leg,        \* the request it is at
    attempts,   \* the retries of that request
    phase,      \* where the call is
    request,    \* the request on the wire: none, sent, or answered by the server
    answer,     \* the status it was answered with
    scope,      \* whose signal it is: the caller's, or each request's timeout
    aborted,    \* whether the signal that bounds the request has fired
    sent,       \* how often each leg's request left
    performed,  \* how often the server did what each writing leg asks
    outcome,    \* what the caller was told
    failing

callVars == <<hasKey, operation, leg, attempts, phase, request, answer, scope, aborted,
              sent, performed, outcome, failing>>

(***************************************************************************)
(* What the methods ask.  A leg reads, writes, or puts bytes into the      *)
(* bucket; "verdict" is a 404 that is an answer, "errors" a 200 or a 400   *)
(* that may carry GraphQL's errors, "empty" what a 2xx without the record  *)
(* becomes.                                                                *)
(***************************************************************************)
Method(name, legs) ==
    [name |-> name, legs |-> legs, keyed |-> FALSE, retries |-> 0, shared |-> FALSE,
     verdict |-> FALSE, errors |-> FALSE, empty |-> "value"]

DeliveryRead == Method("list", <<"read">>)
Artifact == [Method("artifact", <<"read">>) EXCEPT !.retries = 1]
ContentAsOf == Method("contentAsOf", <<"read">>)
Preview == Method("preview", <<"read">>)
MintPreview == Method("mintPreview", <<"write">>)
Schema == Method("schema", <<"read">>)
ResolvePath == [Method("resolvePath", <<"read">>) EXCEPT !.verdict = TRUE]
SiteRead == Method("menus", <<"read">>)
SubmitForm == Method("submitForm", <<"write">>)
MediaWrite ==
    [Method("uploadMedia", <<"write">>) EXCEPT !.keyed = TRUE, !.empty = "raw"]
DirectUpload ==
    [Method("uploadMediaDirect", <<"write", "bucket", "write">>)
        EXCEPT !.keyed = TRUE, !.shared = TRUE, !.empty = "raw"]
RevisionRead == Method("listRevisions", <<"read">>)
RestoreRevision == Method("restoreRevision", <<"write">>)
ReleaseRead == Method("releases", <<"read">>)
ContentWrite ==
    [Method("create", <<"write">>) EXCEPT !.keyed = TRUE, !.empty = "empty_response"]
GraphQL == [Method("graphql", <<"write">>) EXCEPT !.errors = TRUE]

Methods == {DeliveryRead, Artifact, ContentAsOf, Preview, MintPreview, Schema, ResolvePath,
            SiteRead, SubmitForm, MediaWrite, DirectUpload, RevisionRead, RestoreRevision,
            ReleaseRead, ContentWrite, GraphQL}

NoOperation == Method("none", <<>>)
MaxLegs == 3
Writes(kind) == kind \in {"write", "bucket"}

(***************************************************************************)
(* What a caller may be told (errors.ts): a value, an error of the client, *)
(* the platform's own cancellation, or another error of the platform that  *)
(* the client let through.                                                 *)
(***************************************************************************)
KilnErrors == {"auth", "not_found", "validation", "conflict", "rate_limit", "server", "http",
               "network", "graphql", "config", "empty_response"}
Outcomes == {"none", "value", "verdict", "abort", "raw"} \union KilnErrors

Statuses == {200, 400, 401, 404, 409, 429, 501, 503}

\* httpError
ErrorClass(status) ==
    CASE status \in {401, 403} -> "auth"
      [] status = 404 -> "not_found"
      [] status \in {400, 422} -> "validation"
      [] status = 409 -> "conflict"
      [] status = 429 -> "rate_limit"
      [] status >= 500 -> "server"
      [] OTHER -> "http"

CallsInit ==
    /\ hasKey \in BOOLEAN
    /\ operation = NoOperation
    /\ leg = 1 /\ attempts = 0 /\ phase = "idle"
    /\ request = "none" /\ answer = 200
    /\ scope = "caller" /\ aborted = FALSE
    /\ sent = [l \in 1..MaxLegs |-> 0] /\ performed = [l \in 1..MaxLegs |-> 0]
    /\ outcome = "none" /\ failing = 0

Told(what) == phase' = "done" /\ outcome' = what
Leg == operation.legs[leg]
Fails == failing < MaxFailing /\ failing' = failing + 1

\* A call begins; a keyed write without a key is refused before any request.
Call(op, whose) ==
    /\ phase = "idle"
    /\ operation' = op
    /\ scope' = IF op.shared THEN "caller" ELSE whose
    /\ IF op.keyed /\ ~hasKey THEN Told("config")
       ELSE phase' = "ready" /\ UNCHANGED outcome
    /\ UNCHANGED <<hasKey, leg, attempts, request, answer, aborted, sent, performed, failing>>

\* send: fetch refuses at once under a signal that has fired.
Send ==
    /\ phase = "ready"
    /\ IF aborted
       THEN Told("abort") /\ UNCHANGED <<request, sent>>
       ELSE /\ phase' = "fetching" /\ request' = "sent"
            /\ sent' = [sent EXCEPT ![leg] = @ + 1]
            /\ UNCHANGED outcome
    /\ UNCHANGED <<hasKey, operation, leg, attempts, answer, scope, aborted, performed, failing>>

\* The server (or the bucket) answers: it did what was asked, or it refused; a
\* fault may come after the deed.  The request is served though the call ended.
Serve(status) ==
    /\ request = "sent"
    /\ IF status = 200 THEN UNCHANGED failing ELSE Fails
    /\ \/ /\ status \notin 400..499
          /\ performed' = [performed EXCEPT ![leg] = @ + IF Writes(Leg) THEN 1 ELSE 0]
       \/ status # 200 /\ UNCHANGED performed
    /\ request' = "answered" /\ answer' = status
    /\ UNCHANGED <<hasKey, operation, leg, attempts, phase, scope, aborted, sent, outcome>>

\* The signal fires; a fetch that is under way rejects with it, and so does the
\* wait before a retry, which then throws the 503 it holds.
Abort ==
    /\ phase \in {"ready", "fetching", "waiting"}
    /\ ~aborted /\ Fails
    /\ scope = "request" => phase = "fetching"
    /\ aborted' = TRUE
    /\ CASE phase = "fetching" -> Told("abort")
         [] phase = "waiting" -> Told("server")
         [] OTHER -> UNCHANGED <<phase, outcome>>
    /\ UNCHANGED <<hasKey, operation, leg, attempts, request, answer, scope, sent, performed>>

\* The line fails before the answer's head is there: a network error, or, on the
\* bucket's leg, the platform's own.
LineFails ==
    /\ phase = "fetching" /\ Fails
    /\ Told(IF Leg = "bucket" THEN "raw" ELSE "network")
    /\ UNCHANGED <<hasKey, operation, leg, attempts, request, answer, scope, aborted, sent, performed>>

\* A 2xx whose body came whole: the next leg, or the call's value; a write's
\* must have a document in it, and a GraphQL answer no errors.
Succeeded ==
    IF leg < Len(operation.legs)
    THEN leg' = leg + 1 /\ phase' = "ready" /\ attempts' = 0 /\ UNCHANGED outcome
    ELSE /\ Told("value") \/ Told(operation.empty) \/ (operation.errors /\ Told("graphql"))
         /\ UNCHANGED <<leg, attempts>>

\* Mutant: every method waits out a 503, those that write included.
Refusal_RetryAll(bodyRead) ==
    /\ IF answer = 503 /\ attempts < 1
       THEN phase' = "waiting" /\ UNCHANGED outcome
       ELSE Told(IF Leg = "bucket" THEN "http" ELSE ErrorClass(answer))
    /\ UNCHANGED <<leg, attempts>>

\* A refusal, and the methods that do not just throw it: artifact waits once for
\* a 503, resolvePath takes a 404 that says so for an answer, graphql reads the
\* errors of a 400.  The body tells the last two apart, if it could be read.
Refusal(bodyRead) ==
    /\ IF answer = 503 /\ attempts < operation.retries
       THEN phase' = "waiting" /\ UNCHANGED outcome
       ELSE Told(IF bodyRead /\ operation.verdict /\ answer = 404 THEN "verdict"
                 ELSE IF bodyRead /\ operation.errors /\ answer = 400 THEN "graphql"
                 ELSE IF Leg = "bucket" THEN "http"
                 ELSE ErrorClass(answer))
    /\ UNCHANGED <<leg, attempts>>

\* The answer's head is there, and its body is read whole.
Answered ==
    /\ phase = "fetching" /\ request = "answered" /\ request' = "none"
    /\ IF answer = 200 THEN Succeeded ELSE Refusal(TRUE)
    /\ UNCHANGED <<hasKey, operation, answer, scope, aborted, sent, performed, failing>>

\* The body is cut off, by the line or by the signal: of a 2xx that is the
\* platform's error; of a refusal, a body that says nothing.
BodyCut(bySignal) ==
    /\ phase = "fetching" /\ request = "answered" /\ request' = "none"
    /\ Fails
    /\ aborted' = bySignal
    /\ IF answer # 200 THEN Refusal(FALSE)
       ELSE IF Leg = "bucket" THEN Succeeded
       ELSE Told(IF bySignal THEN "abort" ELSE "raw") /\ UNCHANGED <<leg, attempts>>
    /\ UNCHANGED <<hasKey, operation, answer, scope, sent, performed>>

\* The wait is over; under a signal that fired it never began.
Waited ==
    /\ phase = "waiting"
    /\ IF aborted /\ scope = "caller" THEN Told("server") /\ UNCHANGED <<attempts, aborted>>
       ELSE /\ phase' = "ready" /\ attempts' = attempts + 1
            /\ aborted' = FALSE /\ UNCHANGED outcome
    /\ UNCHANGED <<hasKey, operation, leg, request, answer, scope, sent, performed, failing>>

CallsNext ==
    \/ \E op \in Methods, whose \in {"caller", "request"} : Call(op, whose)
    \/ Send \/ Abort \/ LineFails \/ Answered \/ Waited
    \/ \E status \in Statuses : Serve(status)
    \/ \E bySignal \in BOOLEAN : BodyCut(bySignal)

CallsSpec == CallsInit /\ [][CallsNext]_callVars

\* Servers answer, waits end, the event loop runs.
CallsFairness ==
    /\ WF_callVars(Send) /\ WF_callVars(Answered) /\ WF_callVars(Waited)
    /\ WF_callVars(Serve(200))

(***************************************************************************)
(* Properties.                                                             *)
(***************************************************************************)

CallsTypeOK ==
    /\ hasKey \in BOOLEAN /\ aborted \in BOOLEAN
    /\ operation \in Methods \union {NoOperation}
    /\ leg \in 1..MaxLegs /\ attempts \in 0..1
    /\ phase \in {"idle", "ready", "fetching", "waiting", "done"}
    /\ request \in {"none", "sent", "answered"} /\ answer \in Statuses
    /\ scope \in {"caller", "request"}
    /\ sent \in [1..MaxLegs -> Nat] /\ performed \in [1..MaxLegs -> Nat]
    /\ outcome \in Outcomes /\ failing \in 0..MaxFailing

\* What the caller is told is what happened, whatever was lost on the way: a
\* value means every leg was asked and every write done; a refusal below 500
\* means its leg was not done and no leg after it was asked; a missing key means
\* nothing was sent; and nothing that writes is asked twice.
ToldWhatHappened ==
    LET legs == 1..Len(operation.legs)
        writing == {l \in legs : Writes(operation.legs[l])}
    IN  /\ outcome = "value" => /\ \A l \in legs : sent[l] >= 1
                                /\ \A l \in writing : performed[l] = 1
        /\ outcome \in {"auth", "not_found", "validation", "conflict", "rate_limit", "verdict"} =>
              performed[leg] = 0 /\ \A l \in legs : l > leg => sent[l] = 0
        /\ outcome = "config" => \A l \in legs : sent[l] = 0
        /\ \A l \in writing : sent[l] <= 1

\* Every call ends.
CallsEnd == phase # "idle" ~> phase = "done"
=============================================================================
