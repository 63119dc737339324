--------------------------- MODULE BrowserSession ---------------------------
(***************************************************************************)
(* One tab of the frontend: the state of App.jsx and the requests that it  *)
(* sends through askQuestionStream of api.js, while the user picks images, *)
(* asks, signs in and out, and reloads, and while the network delivers the *)
(* events in pieces, late, or not to the end.                              *)
(*                                                                         *)
(* The handlers run to completion one at a time, so each is one action, as *)
(* is the continuation of onSubmit when askQuestionStream returns or       *)
(* throws.  An abort is seen by the aborted request later, as AbortError.  *)
(*                                                                         *)
(* Left out: the text of the question (its field is disabled while a       *)
(* request is in flight), the health probe, warmVlm, and object URLs.      *)
(***************************************************************************)
EXTENDS EventStream

CONSTANTS
    Images,      \* the images that the user may pick
    NoImage,
    HasAuth,     \* HAS_AUTH: the deploy has a login wall
    Progress,    \* the progress events of the pipeline
    Scripts,     \* the event sequences that a server may send
    MaxAsks,     \* bound: requests
    MaxSignIns   \* bound: sign-ins

(* The body of a result event: an answer, a refusal by a screen, an error  *)
(* status, or 401.                                                         *)
Results == {"answer", "blocked", "error", "unauthorized"}

ASSUME SessionAssumption ==
    /\ NoImage \notin Images
    /\ HasAuth \in BOOLEAN
    /\ Progress \cap Results = {}
    /\ Scripts \subseteq Seq(Progress \cup Results)
    /\ MaxAsks \in Nat
    /\ MaxSignIns \in Nat

VARIABLES
    image,     \* the image on display, or NoImage
    token,     \* the sign-in whose token is held, or 0 for null
    answer,    \* the request whose answer is shown, or 0 for null
    error,     \* what the notice is about, or "none"
    rows,      \* stages: the progress events shown, each with its request
    loading,
    abortRef,  \* abortRef.current: the request of the controller, or 0
    asks,      \* the requests sent so far
    signIns,   \* the sign-ins so far
    req        \* the requests, see Request

vars == <<image, token, answer, error, rows, loading, abortRef, asks, signIns, req>>

view == <<image, answer, error, rows>>
auth == <<token, signIns>>

Ask == 1 .. MaxAsks

(* unsent; fetching: no response yet; reading: the body streams;           *)
(* aborted: AbortError is on its way; settled: onSubmit is over.           *)
Phase == {"unsent", "fetching", "reading", "aborted", "settled"}

(* A request: its phase; the image and the token it was sent with; whether *)
(* another image was picked while it was in flight (history); the events   *)
(* its server sends (history); the bytes on their way; the local variables *)
(* buffer and finalEvent; and the events read so far (history).            *)
Unsent ==
    [phase |-> "unsent", image |-> NoImage, token |-> 0, replaced |-> FALSE,
     script |-> <<>>, wire |-> <<>>, buffer |-> <<>>, final |-> "none",
     seen |-> <<>>]

InFlight == {r \in Ask : req[r].phase \in {"fetching", "reading"}}

Init ==
    /\ image = NoImage
    /\ token = 0
    /\ answer = 0
    /\ error = "none"
    /\ rows = {}
    /\ loading = FALSE
    /\ abortRef = 0
    /\ asks = 0
    /\ signIns = 0
    /\ req = [r \in Ask |-> Unsent]

(* The form is rendered; with a login wall, only when signed in.           *)
FormShown == HasAuth => token # 0

-----------------------------------------------------------------------------
(* Mutant of SelectImage: the answer about the old image stays.            *)
SelectImageKeepsAnswer(i) ==
    /\ FormShown
    /\ image' = i
    /\ error' = "none"
    /\ req' = [r \in Ask |-> IF r \in InFlight
                             THEN [req[r] EXCEPT !.replaced = TRUE] ELSE req[r]]
    /\ UNCHANGED <<answer, rows, loading, abortRef, asks, auth>>

(* selectImage: the answer about the image before it goes, the request in  *)
(* flight does not.                                                        *)
SelectImage(i) ==
    /\ FormShown
    /\ image' = i
    /\ answer' = 0
    /\ error' = "none"
    /\ req' = [r \in Ask |-> IF r \in InFlight
                             THEN [req[r] EXCEPT !.replaced = TRUE] ELSE req[r]]
    /\ UNCHANGED <<rows, loading, abortRef, asks, auth>>

(* Not an image, or too large.                                             *)
RejectFile ==
    /\ FormShown
    /\ error' = "file"
    /\ UNCHANGED <<image, answer, rows, loading, abortRef, asks, auth, req>>

(* Mutant of CanSubmit: the button stays enabled while a request is out.   *)
CanSubmitTwice == FormShown /\ image # NoImage

(* The button and the field are disabled unless there is an image and      *)
(* nothing is loading.                                                     *)
CanSubmit == FormShown /\ image # NoImage /\ ~ loading

(* onSubmit of a question that is too weak.                                *)
SubmitWeak ==
    /\ CanSubmit
    /\ error' = "question"
    /\ answer' = 0
    /\ rows' = {}
    /\ UNCHANGED <<image, loading, abortRef, asks, auth, req>>

(* onSubmit up to the fetch: what is shown is cleared, the controller      *)
(* before is aborted.                                                      *)
Submit ==
    LET r == asks + 1
        sent == [Unsent EXCEPT !.phase = "fetching", !.image = image, !.token = token]
        aborted == [q \in Ask |-> IF q = abortRef /\ q \in InFlight
                                  THEN [req[q] EXCEPT !.phase = "aborted"]
                                  ELSE req[q]]
    IN  /\ CanSubmit
        /\ asks < MaxAsks
        /\ asks' = r
        /\ error' = "none"
        /\ answer' = 0
        /\ rows' = {}
        /\ abortRef' = r
        /\ loading' = TRUE
        /\ req' = [aborted EXCEPT ![r] = sent]
        /\ UNCHANGED <<image, auth>>

-----------------------------------------------------------------------------
(* Mutant of Settle: only a result clears the spinner, not an exception    *)
(* (setLoading(false) after the await, in place of the finally clause).    *)
SettleOnResult(r) ==
    /\ req' = [req EXCEPT ![r] = [Unsent EXCEPT !.phase = "settled",
                                     !.image = req[r].image,
                                     !.replaced = req[r].replaced,
                                     !.final = req[r].final]]
    /\ abortRef' = IF abortRef = r THEN 0 ELSE abortRef
    /\ loading' = IF abortRef = r /\ req[r].final # "none" THEN FALSE ELSE loading

(* The finally clause of onSubmit.                                         *)
Settle(r) ==
    /\ req' = [req EXCEPT ![r] = [Unsent EXCEPT !.phase = "settled",
                                     !.image = req[r].image,
                                     !.replaced = req[r].replaced,
                                     !.final = req[r].final]]
    /\ abortRef' = IF abortRef = r THEN 0 ELSE abortRef
    /\ loading' = IF abortRef = r THEN FALSE ELSE loading

(* The response begins: the server has read the request and sends events.  *)
Respond(r) ==
    /\ req[r].phase = "fetching"
    /\ \E s \in Scripts :
         req' = [req EXCEPT ![r].phase = "reading", ![r].script = s,
                            ![r].wire = Wire(s)]
    /\ UNCHANGED <<view, loading, abortRef, asks, auth>>

(* finalEvent after these events, when it was held before.                 *)
LastResult(events, held) ==
    LET results == {i \in DOMAIN events : events[i] \in Results}
    IN  IF results = {} THEN held ELSE events[Max(results)]

(* reader.read() returns the next n symbols: whole events are handed out,  *)
(* the rest waits in the buffer.  JSON.parse throws at an event that is    *)
(* cut off.                                                                *)
Read(r, n) ==
    LET text  == req[r].buffer \o SubSeq(req[r].wire, 1, n)
        lines == DataLines(Lines(text))
        whole == WholeEvents(lines)
        read  == Events(whole)
    IN  /\ req[r].phase = "reading"
        /\ n \in 1 .. Len(req[r].wire)
        /\ rows' = rows \cup {<<r, e>> : e \in ToSet(read) \ Results}
        /\ IF whole = lines
           THEN /\ req' = [req EXCEPT
                             ![r].wire = SubSeq(@, n + 1, Len(@)),
                             ![r].buffer = Rest(text),
                             ![r].seen = @ \o read,
                             ![r].final = LastResult(read, @)]
                /\ UNCHANGED <<error, loading, abortRef>>
           ELSE error' = "request" /\ Settle(r)
        /\ UNCHANGED <<image, answer, asks, auth>>

(* Mutant of Rejects: the name of the error is shown, not its message.     *)
RejectsByName(r) ==
    /\ req[r].phase \in {"fetching", "reading", "aborted"}
    /\ error' = IF req[r].phase = "aborted" THEN "AbortError" ELSE "TypeError"
    /\ Settle(r)
    /\ UNCHANGED <<image, answer, rows, asks, auth>>

(* fetch or reader.read() rejects: no response (or one that is not ok: 413,*)
(* a proxy's 502 or 504), a broken connection, or the AbortError of a      *)
(* request that was aborted, which is not shown.  A 401 of the stream      *)
(* endpoint is not among them: it comes as an event (Unauthorized).        *)
Rejects(r) ==
    /\ req[r].phase \in {"fetching", "reading", "aborted"}
    /\ error' = IF req[r].phase = "aborted" THEN error ELSE "request"
    /\ Settle(r)
    /\ UNCHANGED <<image, answer, rows, asks, auth>>

(* The body ends, at the end or before it: the result decides.             *)
Answered(r) ==
    /\ req[r].final = "answer"
    /\ answer' = r
    /\ Settle(r)
    /\ UNCHANGED <<image, error, rows, asks, auth>>

Refused(r) ==
    /\ req[r].final \in {"none", "blocked", "error"}
    /\ error' = "request"
    /\ Settle(r)
    /\ UNCHANGED <<image, answer, rows, asks, auth>>

(* handleSignOut, and the notice that the session expired.                 *)
Unauthorized(r) ==
    /\ req[r].final = "unauthorized"
    /\ token' = 0
    /\ error' = "request"
    /\ Settle(r)
    /\ UNCHANGED <<image, answer, rows, asks, signIns>>

Done(r) ==
    /\ req[r].phase = "reading"
    /\ Answered(r) \/ Refused(r) \/ Unauthorized(r)

-----------------------------------------------------------------------------
SignIn ==
    /\ HasAuth /\ token = 0
    /\ signIns < MaxSignIns
    /\ signIns' = signIns + 1
    /\ token' = signIns + 1
    /\ UNCHANGED <<view, loading, abortRef, asks, req>>

SignOut ==
    /\ token # 0
    /\ token' = 0
    /\ UNCHANGED <<view, loading, abortRef, asks, signIns, req>>

(* The page is loaded anew: only sessionStorage, the token, survives.      *)
Reload ==
    /\ image' = NoImage
    /\ answer' = 0
    /\ error' = "none"
    /\ rows' = {}
    /\ loading' = FALSE
    /\ abortRef' = 0
    /\ req' = [r \in Ask |-> IF r <= asks THEN [Unsent EXCEPT !.phase = "settled"]
                                          ELSE Unsent]
    /\ UNCHANGED <<asks, auth>>

(* What the network and the event loop do for a request.                   *)
Deliver(r) ==
    \/ Respond(r) \/ Done(r) \/ Rejects(r)
    \/ \E n \in 1 .. Len(req[r].wire) : Read(r, n)

User ==
    \/ \E i \in Images : SelectImage(i)
    \/ RejectFile \/ SubmitWeak \/ Submit \/ SignIn \/ SignOut \/ Reload

Next == User \/ \E r \in Ask : Deliver(r)

Spec == Init /\ [][Next]_vars

FairSpec == Spec /\ \A r \in Ask : WF_vars(Deliver(r))

-----------------------------------------------------------------------------
Error == {"none", "file", "question", "request"}

Symbols == {<<e, h>> : e \in Progress \cup Results, h \in 1 .. 2} \cup {LF}

RequestType ==
    [phase : Phase, image : Images \cup {NoImage}, token : 0 .. MaxSignIns,
     replaced : BOOLEAN, script : Scripts \cup {<<>>}, wire : Seq(Symbols),
     buffer : Seq(Symbols), final : Results \cup {"none"},
     seen : Seq(Progress \cup Results)]

(* The values the state of App.jsx and of the requests may take.           *)
TypeOK ==
    /\ image \in Images \cup {NoImage}
    /\ token \in 0 .. MaxSignIns
    /\ answer \in 0 .. MaxAsks
    /\ error \in Error
    /\ rows \subseteq Ask \X Progress
    /\ loading \in BOOLEAN
    /\ abortRef \in 0 .. MaxAsks
    /\ asks \in 0 .. MaxAsks
    /\ signIns \in 0 .. MaxSignIns
    /\ req \in [Ask -> RequestType]

(* The spinner is on exactly while one request is out, which is the newest *)
(* and the one that abortRef can abort, whatever was clicked meanwhile.    *)
(* The abort in onSubmit is therefore never needed, and the rows shown are *)
(* those of the request that was asked last.                               *)
LoadingIsExact ==
    /\ InFlight = IF loading THEN {asks} ELSE {}
    /\ abortRef = IF loading THEN asks ELSE 0
    /\ \A row \in rows : row[1] = asks
    /\ \A r \in Ask : req[r].phase # "aborted"

(* However the network cuts the bytes, what the reader has handed out, what*)
(* it keeps and what is still to come is what the server wrote; it never   *)
(* keeps a whole event, and the result it holds is the last one it read.   *)
StreamIntact ==
    \A r \in Ask : req[r].phase = "reading" =>
        /\ Wire(req[r].seen) \o req[r].buffer \o req[r].wire = Wire(req[r].script)
        /\ Len(req[r].buffer) < 4
        /\ req[r].final = LastResult(req[r].seen, "none")

(* An answer on display is the one that the newest request ended with, no  *)
(* failure of it is on display too, and it is about the image on display   *)
(* unless the user picked another one while the request was out.           *)
OutcomeShown ==
    answer # 0 =>
        /\ answer = asks /\ ~ loading
        /\ req[answer].final = "answer"
        /\ error \in {"none", "file"}
        /\ image = req[answer].image \/ req[answer].replaced

(* The spinner goes off, whatever the server and the network do: a server  *)
(* that hangs is ended by the proxy (proxy_read_timeout).                  *)
LoadingEnds == loading ~> ~ loading
=============================================================================
