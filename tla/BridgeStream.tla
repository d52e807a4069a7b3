---------------------------- MODULE BridgeStream ----------------------------
(***************************************************************************)
(* The live-preview socket of the visual-editing bridge                    *)
(* (priv/static/bridge.js), which a front end embeds, against              *)
(* KilnCMSWeb.BridgeSocket, which admits a preview token while it is valid *)
(* and re-checks it while the stream is open.  The front end mints tokens  *)
(* and hands them over; in Kiln's Presentation console a save also nudges  *)
(* the framed page (the PresentationFrame hook of assets/js/app.js).       *)
(***************************************************************************)
EXTENDS Naturals

CONSTANTS
    MAX_FAILURES,  \* refusals in a row before the bridge gives up
    MaxTokens,     \* how many tokens are minted
    MaxCalls,      \* how often the page calls connect or disconnect
    MaxOutages     \* how often the line or the server drops the socket
ASSUME BridgeAssumption ==
    /\ MAX_FAILURES \in Nat /\ MaxTokens \in Nat \ {0}
    /\ MaxCalls \in Nat /\ MaxOutages \in Nat

VARIABLES
    watching,      \* whether live push is wanted
    stream,        \* the socket: its state, and the token in its address
    retryTimer,    \* whether a reconnect is scheduled
    refused,       \* the bridge's "failures"
    previewToken,  \* the credential it was given last
    valid,         \* the tokens the server still admits
    missed,        \* whether the bridge gave up on a token it never saw refused
    calls, outages

bridgeVars == <<watching, stream, retryTimer, refused, previewToken, valid, missed,
                calls, outages>>

Tokens == 1..MaxTokens
NoSocket == [state |-> "none", token |-> 0]
Connecting(token) == [state |-> "connecting", token |-> token]
Streaming(token) == [state |-> "open", token |-> token]

\* The page was rendered with the first token.
BridgeInit ==
    /\ watching = FALSE
    /\ stream = NoSocket /\ retryTimer = FALSE /\ refused = 0
    /\ previewToken = 1 /\ valid = {1}
    /\ missed = FALSE
    /\ calls = 0 /\ outages = 0

(***************************************************************************)
(* The page's calls.                                                       *)
(***************************************************************************)

\* open: whatever socket there was is closed first, and no longer heard.
Open(token) == stream' = Connecting(token)

\* connect(type, id)
Connect ==
    /\ calls < MaxCalls /\ calls' = calls + 1
    /\ watching' = TRUE /\ refused' = 0 /\ retryTimer' = FALSE
    /\ missed' = FALSE
    /\ Open(previewToken)
    /\ UNCHANGED <<previewToken, valid, outages>>

Disconnect ==
    /\ watching /\ calls < MaxCalls /\ calls' = calls + 1
    /\ watching' = FALSE /\ retryTimer' = FALSE /\ stream' = NoSocket
    /\ missed' = FALSE
    /\ UNCHANGED <<refused, previewToken, valid, outages>>

\* Mutant: the new token is left to the next attempt, which need not come.
SetPreviewToken_ForLater(token) ==
    /\ token = previewToken + 1
    /\ previewToken' = token
    /\ valid' = valid \union {token}
    /\ UNCHANGED <<watching, stream, retryTimer, refused, missed, calls, outages>>

\* setPreviewToken: a socket that is down reconnects now, one that is open or on
\* its way keeps the token it has.
SetPreviewToken(token) ==
    /\ token = previewToken + 1
    /\ previewToken' = token
    /\ valid' = valid \union {token}
    /\ IF watching /\ stream = NoSocket
       THEN refused' = 0 /\ retryTimer' = FALSE /\ missed' = FALSE /\ Open(token)
       ELSE UNCHANGED <<refused, retryTimer, missed, stream>>
    /\ UNCHANGED <<watching, calls, outages>>

\* The console's nudge after a save: a page without callbacks loads again, and
\* asks for live push if it did before.
Nudged ==
    /\ calls < MaxCalls /\ calls' = calls + 1
    /\ stream' = IF watching THEN Connecting(previewToken) ELSE NoSocket
    /\ retryTimer' = FALSE /\ refused' = 0 /\ missed' = FALSE
    /\ UNCHANGED <<watching, previewToken, valid, outages>>

(***************************************************************************)
(* The socket.                                                             *)
(***************************************************************************)

\* A token lapses, or its grant is revoked.
Lapse(token) ==
    /\ token \in valid
    /\ valid' = valid \ {token}
    /\ UNCHANGED <<watching, stream, retryTimer, refused, previewToken, missed, calls, outages>>

\* onopen
Admitted ==
    /\ stream.state = "connecting" /\ stream.token \in valid
    /\ stream' = Streaming(stream.token)
    /\ refused' = 0 /\ missed' = FALSE
    /\ UNCHANGED <<watching, retryTimer, previewToken, valid, calls, outages>>

\* Mutant: one attempt too many.
Lost_OneMore(untried) ==
    /\ stream' = NoSocket
    /\ IF watching /\ ~retryTimer /\ refused <= MAX_FAILURES
       THEN refused' = refused + 1 /\ retryTimer' = TRUE /\ UNCHANGED missed
       ELSE missed' = untried /\ UNCHANGED <<refused, retryTimer>>

\* onclose, then scheduleReconnect, unless that was the last attempt.
Lost(untried) ==
    /\ stream' = NoSocket
    /\ IF watching /\ ~retryTimer /\ refused < MAX_FAILURES
       THEN refused' = refused + 1 /\ retryTimer' = TRUE /\ UNCHANGED missed
       ELSE missed' = untried /\ UNCHANGED <<refused, retryTimer>>

\* The server refuses the connect, or its re-check closes an open stream.
Refused ==
    /\ stream.state # "none" /\ stream.token \notin valid
    /\ Lost(stream.token # previewToken)
    /\ UNCHANGED <<watching, previewToken, valid, calls, outages>>

Outage ==
    /\ stream.state # "none"
    /\ outages < MaxOutages /\ outages' = outages + 1
    /\ Lost(TRUE)
    /\ UNCHANGED <<watching, previewToken, valid, calls>>

\* The backoff is over: a new attempt, with the token that is current.
RetryFires ==
    /\ retryTimer
    /\ retryTimer' = FALSE
    /\ Open(previewToken)
    /\ UNCHANGED <<watching, refused, previewToken, valid, missed, calls, outages>>

BridgeNext ==
    \/ Connect \/ Disconnect \/ Nudged
    \/ Admitted \/ Refused \/ Outage \/ RetryFires
    \/ \E token \in Tokens : SetPreviewToken(token) \/ Lapse(token)

BridgeSpec == BridgeInit /\ [][BridgeNext]_bridgeVars

\* Attempts are answered and timers fire; nobody has to mint or call.
BridgeFairness ==
    WF_bridgeVars(Admitted) /\ WF_bridgeVars(Refused) /\ WF_bridgeVars(RetryFires)

(***************************************************************************)
(* Properties.                                                             *)
(***************************************************************************)

BridgeTypeOK ==
    /\ {watching, retryTimer, missed} \subseteq BOOLEAN
    /\ stream \in [state : {"none", "connecting", "open"}, token : Tokens \union {0}]
    /\ refused \in 0..MAX_FAILURES
    /\ previewToken \in Tokens /\ valid \in SUBSET Tokens
    /\ calls \in 0..MaxCalls /\ outages \in 0..MaxOutages

\* A front end that keeps a good token in the bridge's hands keeps its stream:
\* "a close is answered by reconnecting with the CURRENT credential".  The one
\* exception: the last attempt before giving up fails though the token was not
\* refused, because it came while that attempt was under way with another, or
\* the line failed it; then the token is never tried again, although the bridge
\* gives up only "until the front end supplies a new token".
StreamResumes ==
    <>[](watching /\ previewToken \in valid)
        => <>[](stream.state = "open" \/ missed)
=============================================================================
