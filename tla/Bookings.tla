------------------------------ MODULE Bookings ------------------------------
(***************************************************************************)
(* Booking requests: the forms and the identity of the browsers             *)
(* (web/components/BookingRequest.tsx, BookingList.tsx, web/lib/api.ts), the *)
(* handlers (api/app.py) and the table (store/bookings.py, migrations/006). *)
(*                                                                          *)
(* A handler's statements auto-commit one by one, so two handlers of one    *)
(* session interleave between the look-up, the check and the insert.  Each  *)
(* HTTP call is one member of Calls; the row it inserts and the session     *)
(* token minted for it are named after it.                                  *)
(***************************************************************************)
EXTENDS Integers, FiniteSets

CONSTANTS
  Browsers,     \* one localStorage each
  Panels,       \* mounted BookingRequest forms: tabs, or two nights at one stay
  Targets,      \* (kind, place, itinerary): what a form asks for
  Calls,        \* bound: the HTTP calls of one behaviour
  None,         \* no token, no row, nothing pending
  BrowserOf,    \* the browser each form lives in
  TargetOf,     \* the target each form is about
  AllowPlans,   \* whether trips are planned too: createPlan stores tokens
  MaxFailures   \* bound: statements that raise

ASSUME ConstantsAssumption ==
  /\ BrowserOf \in [Panels -> Browsers]
  /\ TargetOf \in [Panels -> Targets]
  /\ None \notin Calls \cup Browsers \cup Targets
  /\ AllowPlans \in BOOLEAN
  /\ MaxFailures \in Nat

VARIABLES
  published,  \* the targets the publish gate has let through
  bookings,   \* the table: each row under the call that inserted it
  token,      \* localStorage[SESSION_KEY] of each browser
  panel,      \* what each form shows
  call,       \* each HTTP call, as its handler sees it
  failures    \* statements that raised so far (a bound)

vars == <<published, bookings, token, panel, call, failures>>

Token == Calls \cup {None}

Booking == [status  : {"absent", "requested", "withdrawn"},
            session : Token,
            target  : Targets \cup {None}]

\* What a handler does next, or that it has answered.
Stage  == {"unused", "resolve", "check", "insert", "list", "accept", "close", "answered"}
Answer == {"none", "created", "conflict", "notFound", "crash", "accepted", "withdrawn"}

Call == [stage   : Stage,
         browser : Browsers \cup {None},
         session : Token,                 \* x_session_token
         target  : Targets \cup {None},
         subject : Token,                 \* the row to withdraw
         answer  : Answer]

Form == [ui : {"open", "busy", "saved", "duplicate", "error"}, pending : Token]

NoBooking == [status |-> "absent", session |-> None, target |-> None]
Unused    == [stage |-> "unused", browser |-> None, session |-> None,
              target |-> None, subject |-> None, answer |-> "none"]
OpenForm  == [ui |-> "open", pending |-> None]

\* status NOT IN ('withdrawn', 'declined')
IsOpen(d) == bookings[d].status = "requested"

Waiting(b, c) == call[c].browser = b /\ call[c].stage = "answered"

-----------------------------------------------------------------------------
Init ==
  /\ published \in SUBSET Targets
  /\ bookings = [c \in Calls |-> NoBooking]
  /\ token = [b \in Browsers |-> None]
  /\ panel = [p \in Panels |-> OpenForm]
  /\ call = [c \in Calls |-> Unused]
  /\ failures = 0

\* `tripplan publish' promotes a draft; nothing in the program demotes one.
Publish(g) ==
  /\ g \notin published
  /\ published' = published \cup {g}
  /\ UNCHANGED <<bookings, token, panel, call, failures>>

-----------------------------------------------------------------------------
(* The browser. *)

\* Mutant of OwnToken: no token is minted, the server will issue one.
OwnTokenOrNone(b, c) == token[b]

\* readSessionToken() ?? mintSessionToken()
OwnToken(b, c) == IF token[b] = None THEN c ELSE token[b]

\* submit(): the button is disabled while busy, the form replaced when done.
Submit(p, c) ==
  LET b == BrowserOf[p] IN
  /\ panel[p].ui \in {"open", "error"}
  /\ call[c].stage = "unused"
  /\ token' = [token EXCEPT ![b] = OwnToken(b, c)]
  /\ panel' = [panel EXCEPT ![p] = [ui |-> "busy", pending |-> c]]
  /\ call' = [call EXCEPT ![c] = [Unused EXCEPT !.stage = "resolve", !.browser = b,
                                                !.session = OwnToken(b, c),
                                                !.target = TargetOf[p]]]
  /\ UNCHANGED <<published, bookings, failures>>

Shown(answer) ==
  CASE answer = "created"  -> "saved"
    [] answer = "conflict" -> "duplicate"
    [] OTHER               -> "error"

\* The response arrives; a 201 carries X-Session-Token, which is stored.
Receive(p) ==
  LET b == BrowserOf[p]
      c == panel[p].pending IN
  /\ panel[p].ui = "busy"
  /\ call[c].stage = "answered"
  /\ panel' = [panel EXCEPT ![p] = [ui |-> Shown(call[c].answer), pending |-> c]]
  /\ token' = IF call[c].answer = "created"
              THEN [token EXCEPT ![b] = call[c].session] ELSE token
  /\ UNCHANGED <<published, bookings, call, failures>>

\* The connection breaks; the handler goes on without a listener.
LoseAnswer(p) ==
  /\ panel[p].ui = "busy"
  /\ panel' = [panel EXCEPT ![p] = [ui |-> "error", pending |-> None]]
  /\ UNCHANGED <<published, bookings, token, call, failures>>

\* The page is loaded again: the form is as new, a pending answer is dropped.
Reload(p) ==
  /\ panel[p] # OpenForm
  /\ panel' = [panel EXCEPT ![p] = OpenForm]
  /\ UNCHANGED <<published, bookings, token, call, failures>>

\* createPlan sends the token if there is one, and mints none.
Plan(b, c) ==
  /\ AllowPlans
  /\ call[c].stage = "unused"
  /\ call' = [call EXCEPT ![c] = [Unused EXCEPT !.stage = "accept", !.browser = b,
                                                !.session = token[b]]]
  /\ UNCHANGED <<published, bookings, token, panel, failures>>

\* storeSessionToken(accepted.session_token)
PlanAccepted(b, c) ==
  /\ Waiting(b, c)
  /\ call[c].answer = "accepted"
  /\ token' = [token EXCEPT ![b] = call[c].session]
  /\ call' = [call EXCEPT ![c].answer = "none"]
  /\ UNCHANGED <<published, bookings, panel, failures>>

\* drop(): any row a list ever showed, under the token of this moment.
Withdraw(b, c, d) ==
  /\ token[b] # None
  /\ call[c].stage = "unused"
  /\ bookings[d].status # "absent"
  /\ call' = [call EXCEPT ![c] = [Unused EXCEPT !.stage = "close", !.browser = b,
                                                !.session = token[b], !.subject = d]]
  /\ UNCHANGED <<published, bookings, token, panel, failures>>

-----------------------------------------------------------------------------
(* create_booking *)

Moves(c, from, to) ==
  /\ call[c].stage = from
  /\ call' = [call EXCEPT ![c].stage = to]

Answers(c, from, answer) ==
  /\ call[c].stage = from
  /\ call' = [call EXCEPT ![c].stage = "answered", ![c].answer = answer]

\* x_session_token or secrets.token_urlsafe(24)
Identity(c) == IF call[c].session = None THEN c ELSE call[c].session

\* resolve_target: published rows only
Resolve(c) ==
  /\ call[c].target \in published
  /\ call[c].stage = "resolve"
  /\ call' = [call EXCEPT ![c].stage = "check",
                          ![c].session = Identity(c)]
  /\ UNCHANGED <<published, bookings, token, panel, failures>>

ResolveNothing(c) ==
  /\ call[c].target \notin published
  /\ Answers(c, "resolve", "notFound")
  /\ UNCHANGED <<published, bookings, token, panel, failures>>

\* Mutant of SameRequest: whoever asked.
SameRequestOfAnyone(c, d) == bookings[d].target = call[c].target

SameRequest(c, d) ==
  /\ bookings[d].session = call[c].session
  /\ bookings[d].target = call[c].target

\* request_booking's SELECT
Check(c) ==
  /\ \A d \in Calls : SameRequest(c, d) => ~IsOpen(d)
  /\ Moves(c, "check", "insert")
  /\ UNCHANGED <<published, bookings, token, panel, failures>>

CheckConflict(c) ==
  /\ \E d \in Calls : SameRequest(c, d) /\ IsOpen(d)
  /\ Answers(c, "check", "conflict")
  /\ UNCHANGED <<published, bookings, token, panel, failures>>

\* Mutants of Clash: no unique index; an index that is not partial.
ClashNever(c) == FALSE
ClashWithClosed(c) ==
  \E d \in Calls : SameRequest(c, d) /\ bookings[d].status # "absent"

\* bookings_one_open_per_target
Clash(c) == \E d \in Calls : SameRequest(c, d) /\ IsOpen(d)

\* request_booking's INSERT
Insert(c) ==
  /\ ~Clash(c)
  /\ Moves(c, "insert", "list")
  /\ bookings' = [bookings EXCEPT ![c] = [status  |-> "requested",
                                          session |-> call[c].session,
                                          target  |-> call[c].target]]
  /\ UNCHANGED <<published, token, panel, failures>>

\* UniqueViolationError is not BookingConflictError: nothing catches it.
InsertClash(c) ==
  /\ Clash(c)
  /\ Answers(c, "insert", "crash")
  /\ UNCHANGED <<published, bookings, token, panel, failures>>

\* list_bookings, and the 201
Created(c) ==
  /\ Answers(c, "list", "created")
  /\ UNCHANGED <<published, bookings, token, panel, failures>>

\* A statement raises (the database is away): a 500, also after the insert.
StatementRaises(c) ==
  /\ failures < MaxFailures
  /\ call[c].stage \notin {"unused", "answered"}
  /\ Answers(c, call[c].stage, "crash")
  /\ failures' = failures + 1
  /\ UNCHANGED <<published, bookings, token, panel>>

\* create_plan
AcceptPlan(c) ==
  /\ call[c].stage = "accept"
  /\ call' = [call EXCEPT ![c].stage = "answered", ![c].answer = "accepted",
                          ![c].session = Identity(c)]
  /\ UNCHANGED <<published, bookings, token, panel, failures>>

\* Mutant of Withdrawable: the session is not compared.
WithdrawableByAnyone(c) == IsOpen(call[c].subject)

Withdrawable(c) ==
  LET d == call[c].subject IN IsOpen(d) /\ bookings[d].session = call[c].session

\* withdraw_booking: one UPDATE
Close(c) ==
  /\ call[c].stage = "close"
  /\ Withdrawable(c)
  /\ Answers(c, "close", "withdrawn")
  /\ bookings' = [bookings EXCEPT ![call[c].subject].status = "withdrawn"]
  /\ UNCHANGED <<published, token, panel, failures>>

CloseNothing(c) ==
  /\ call[c].stage = "close"
  /\ ~Withdrawable(c)
  /\ Answers(c, "close", "notFound")
  /\ UNCHANGED <<published, bookings, token, panel, failures>>

-----------------------------------------------------------------------------
Handler(c) ==
  \/ Resolve(c) \/ ResolveNothing(c) \/ Check(c) \/ CheckConflict(c)
  \/ Insert(c) \/ InsertClash(c) \/ Created(c) \/ StatementRaises(c)
  \/ AcceptPlan(c) \/ Close(c) \/ CloseNothing(c)

Client(c) ==
  \/ \E p \in Panels : Submit(p, c)
  \/ \E b \in Browsers : Plan(b, c) \/ PlanAccepted(b, c)
  \/ \E b \in Browsers, d \in Calls : Withdraw(b, c, d)

Next ==
  \/ \E g \in Targets : Publish(g)
  \/ \E c \in Calls : Handler(c) \/ Client(c)
  \/ \E p \in Panels : Receive(p) \/ LoseAnswer(p) \/ Reload(p)

Spec == Init /\ [][Next]_vars

-----------------------------------------------------------------------------
(* Properties. *)

TypeOK ==
  /\ published \subseteq Targets
  /\ bookings \in [Calls -> Booking]
  /\ token \in [Browsers -> Token]
  /\ panel \in [Panels -> Form]
  /\ \A p \in Panels : panel[p].ui \in {"busy", "saved", "duplicate"} => panel[p].pending \in Calls
  /\ call \in [Calls -> Call]
  /\ \A c \in Calls : /\ call[c].stage = "close" => call[c].subject \in Calls
                      /\ call[c].answer = "accepted" => call[c].session \in Calls
  /\ failures \in 0 .. MaxFailures

\* One open request per session and target, although the check and the insert
\* of request_booking are two statements: the partial unique index closes the
\* gap between them.
OneOpenPerTarget ==
  \A c, d \in Calls :
    (IsOpen(c) /\ IsOpen(d) /\ bookings[c].session = bookings[d].session
               /\ bookings[c].target = bookings[d].target) => c = d

\* "Saved to your requests" and "Already on your list" are true: a request for
\* what the form shows is on record under the identity the form was sent with,
\* whatever was lost, repeated or withdrawn in between.
SavedIsOnRecord ==
  \A p \in Panels : panel[p].ui \in {"saved", "duplicate"} =>
    \E d \in Calls : /\ bookings[d].status # "absent"
                     /\ bookings[d].target = TargetOf[p]
                     /\ bookings[d].session = call[panel[p].pending].session

\* A plan was asked for without a token, so that the server minted one for it.
MintedForPlan(b) ==
  \E e \in Calls : /\ call[e].browser = b /\ call[e].session = e
                   /\ call[e].target = None /\ call[e].subject = None

\* A browser's requests are on its list, which it asks for by its token ("a
\* request that silently lands under an unknowable identity", api.ts): no lost
\* or late answer takes one off it.  A token minted for a plan may.
RecordedIsListed ==
  \A c \in Calls : bookings[c].status # "absent" =>
    \/ bookings[c].session = token[call[c].browser]
    \/ MintedForPlan(call[c].browser)

\* A request is closed by its own session only, stays closed, and is otherwise
\* never rewritten.
OnlyItsSessionCloses ==
  [][\A d \in Calls : bookings[d].status # "absent" /\ bookings'[d] # bookings[d] =>
       /\ bookings[d].status = "requested"
       /\ bookings'[d] = [bookings[d] EXCEPT !.status = "withdrawn"]
       /\ \E c \in Calls : /\ call[c].stage = "close" /\ call'[c].answer = "withdrawn"
                           /\ call[c].session = bookings[d].session]_vars

\* A request is turned away only on account of one that is open at that very
\* moment: what was withdrawn can be asked for again.
RefusedOnlyWhileOpen ==
  [][\A c \in Calls :
       (call[c].stage \in {"check", "insert"} /\ call'[c].answer \in {"conflict", "crash"}
          /\ failures' = failures)
         => \E d \in Calls : d # c /\ IsOpen(d) /\ SameRequest(c, d)]_vars
=============================================================================
