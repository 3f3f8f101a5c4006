--------------------------- MODULE Bookings_proofs ---------------------------
(* Theorems about Bookings, for every number of browsers, forms and calls.   *)
EXTENDS Bookings, TLAPS

\* What the handlers and forms write, as members of their types.
LEMMA CallNames ==
  /\ {"unused", "resolve", "check", "insert", "list", "accept", "close", "answered"} \subseteq Stage
  /\ {"none", "created", "conflict", "notFound", "crash", "accepted", "withdrawn"} \subseteq Answer
BY DEF Stage, Answer

LEMMA UnusedIsCall == Unused \in Call
BY CallNames DEF Unused, Call, Token

\* A step of one handler leaves a well-typed call behind.
LEMMA MovesType ==
  ASSUME call \in [Calls -> Call], NEW c \in Calls, NEW from, NEW to \in Stage, Moves(c, from, to)
  PROVE  /\ call' \in [Calls -> Call]
         /\ \A d \in Calls \ {c} : call'[d] = call[d]
         /\ call'[c].stage = to /\ call'[c].answer = call[c].answer
         /\ call'[c].target = call[c].target /\ call'[c].session = call[c].session
         /\ call'[c].subject = call[c].subject
BY DEF Moves, Call

LEMMA AnswersType ==
  ASSUME call \in [Calls -> Call], NEW c \in Calls, NEW from, NEW answer \in Answer,
         Answers(c, from, answer)
  PROVE  /\ call' \in [Calls -> Call]
         /\ \A d \in Calls \ {c} : call'[d] = call[d]
         /\ call[c].stage = from
         /\ call'[c].stage = "answered" /\ call'[c].answer = answer
         /\ call'[c].target = call[c].target /\ call'[c].session = call[c].session
         /\ call'[c].subject = call[c].subject
BY CallNames DEF Answers, Call

-----------------------------------------------------------------------------
(* The inductive invariant.                                                  *)

\* A call that has not reached its INSERT has no row, and no answer.
Fresh ==
  \A c \in Calls :
    /\ call[c].stage \in {"unused", "resolve", "check", "insert"} => bookings[c].status = "absent"
    /\ call[c].stage # "answered" => call[c].answer = "none"

\* There is a row for what the call asked, under the call's session.
Backed(c) == \E d \in Calls : bookings[d].status # "absent" /\ SameRequest(c, d)

\* What a call answered "created" or "conflict" about is on record.
Backing ==
  \A c \in Calls : (call[c].stage = "list" \/ call[c].answer \in {"created", "conflict"})
                     => Backed(c)

\* A form waits for, and shows the outcome of, a call about its own target.
Forms ==
  \A p \in Panels : panel[p].ui \in {"busy", "saved", "duplicate"} =>
    LET c == panel[p].pending IN
    /\ c \in Calls
    /\ call[c].stage # "unused"
    /\ call[c].target = TargetOf[p]
    /\ panel[p].ui # "busy" => call[c].answer \in {"created", "conflict"}

RecordInv == TypeOK /\ Fresh /\ Backing /\ Forms /\ OneOpenPerTarget

\* No row disappears or changes hands.
RowsKept ==
  \A d \in Calls : bookings[d].status # "absent" =>
    /\ bookings'[d].status # "absent"
    /\ bookings'[d].session = bookings[d].session
    /\ bookings'[d].target = bookings[d].target

LEMMA BackedStays ==
  ASSUME NEW c \in Calls, RowsKept, Backed(c),
         call'[c].target = call[c].target, call'[c].session = call[c].session
  PROVE  Backed(c)'
BY DEF RowsKept, Backed, SameRequest

\* One handler moves on, its answer backed by the table: the forms and the
\* other calls keep what they rely on.
LEMMA HandlerStep ==
  ASSUME RecordInv, NEW c \in Calls, RowsKept, panel' = panel,
         \A d \in Calls \ {c} : call'[d] = call[d],
         call[c].stage # "unused", call'[c].stage # "unused",
         call'[c].target = call[c].target,
         call[c].answer \notin {"created", "conflict"},
         (call'[c].stage = "list" \/ call'[c].answer \in {"created", "conflict"}) => Backed(c)'
  PROVE  Backing' /\ Forms'
<1>1. Backing'
  <2> SUFFICES ASSUME NEW d \in Calls,
                      (call'[d].stage = "list" \/ call'[d].answer \in {"created", "conflict"})
               PROVE  Backed(d)'
    BY DEF Backing
  <2>1. CASE d = c
    BY <2>1
  <2>2. CASE d # c
    <3>1. call'[d] = call[d] /\ Backed(d)
      BY <2>2 DEF RecordInv, Backing
    <3> QED BY <3>1, BackedStays
  <2> QED BY <2>1, <2>2
<1>2. Forms'
  BY DEF RecordInv, Forms
<1> QED BY <1>1, <1>2

LEMMA OpenKept ==
  ASSUME OneOpenPerTarget, RowsKept, NEW d \in Calls,
         \A e \in Calls \ {d} : bookings'[e] = bookings[e],
         IsOpen(d)' => IsOpen(d)
  PROVE  OneOpenPerTarget'
BY DEF OneOpenPerTarget, RowsKept, IsOpen

LEMMA InitRecord == Init => RecordInv
<1> SUFFICES ASSUME Init PROVE RecordInv
  OBVIOUS
<1>1. TypeOK
  BY ConstantsAssumption, UnusedIsCall
     DEF Init, TypeOK, Booking, NoBooking, Token, Form, OpenForm, Unused
<1>2. Fresh /\ Backing /\ Forms /\ OneOpenPerTarget
  BY DEF Init, Fresh, Backing, Forms, OneOpenPerTarget, NoBooking, Unused, OpenForm, IsOpen
<1> QED BY <1>1, <1>2 DEF RecordInv

\* A handler that reads, or answers without a write.
LEMMA ReadStep ==
  ASSUME RecordInv, NEW c \in Calls, call' \in [Calls -> Call],
         \A d \in Calls \ {c} : call'[d] = call[d],
         call[c].stage \notin {"unused", "answered"},
         call'[c].stage # "close", call'[c].stage # "unused",
         call'[c].target = call[c].target,
         call'[c].answer = "accepted" => call'[c].session \in Calls,
         call'[c].stage \in {"resolve", "check", "insert"} => bookings[c].status = "absent",
         call'[c].stage # "answered" => call'[c].answer = "none",
         (call'[c].stage = "list" \/ call'[c].answer \in {"created", "conflict"}) => Backed(c)',
         bookings' = bookings, panel' = panel, published' = published, token' = token,
         failures' \in 0 .. MaxFailures
  PROVE  RecordInv'
<1>0. TypeOK /\ Fresh /\ call[c].answer \notin {"created", "conflict"}
  BY DEF RecordInv, Fresh
<1>1. RowsKept
  BY DEF RowsKept
<1>2. Backing' /\ Forms'
  BY <1>0, <1>1, HandlerStep
<1>3. TypeOK'
  BY <1>0 DEF TypeOK
<1>4. Fresh'
  BY <1>0 DEF Fresh
<1>5. OneOpenPerTarget'
  BY DEF RecordInv, OneOpenPerTarget, IsOpen
<1> QED BY <1>2, <1>3, <1>4, <1>5 DEF RecordInv

\* A browser sends a call: no handler has touched it, no form waits for it yet.
LEMMA SendStep ==
  ASSUME RecordInv, NEW c \in Calls, call' \in [Calls -> Call],
         \A d \in Calls \ {c} : call'[d] = call[d],
         call[c].stage = "unused",
         call'[c].answer = "none", call'[c].stage \in {"resolve", "accept", "close"},
         call'[c].stage = "close" => call'[c].subject \in Calls,
         bookings' = bookings, published' = published, failures' = failures,
         token' \in [Browsers -> Token], panel' = panel
  PROVE  RecordInv'
<1>0. TypeOK /\ Fresh /\ Backing /\ Forms /\ OneOpenPerTarget
  BY DEF RecordInv
<1>1. RowsKept
  BY DEF RowsKept
<1>2. call[c].answer = "none" /\ bookings[c].status = "absent"
  BY <1>0 DEF Fresh
<1>3. TypeOK' /\ Fresh'
  BY <1>0, <1>2 DEF TypeOK, Fresh
<1>4. Backing'
  <2> SUFFICES ASSUME NEW d \in Calls,
                      (call'[d].stage = "list" \/ call'[d].answer \in {"created", "conflict"})
               PROVE  Backed(d)'
    BY DEF Backing
  <2>1. d # c
    OBVIOUS
  <2> QED BY <1>0, <1>1, <2>1, BackedStays DEF Backing
<1>5. Forms'
  BY <1>0 DEF Forms
<1>6. OneOpenPerTarget'
  BY <1>0 DEF OneOpenPerTarget, IsOpen
<1> QED BY <1>3, <1>4, <1>5, <1>6 DEF RecordInv

\* A form changes what it shows; the server does not notice.
LEMMA FormStep ==
  ASSUME RecordInv, NEW p \in Panels, panel' \in [Panels -> Form],
         \A q \in Panels \ {p} : panel'[q] = panel[q],
         panel'[p].ui \in {"busy", "saved", "duplicate"} =>
           /\ panel'[p].pending = panel[p].pending
           /\ panel[p].ui = "busy"
           /\ call[panel[p].pending].answer \in {"created", "conflict"},
         token' \in [Browsers -> Token],
         call' = call, bookings' = bookings, published' = published, failures' = failures
  PROVE  RecordInv'
<1>0. TypeOK /\ Fresh /\ Backing /\ Forms /\ OneOpenPerTarget
  BY DEF RecordInv
<1>1. Forms'
  BY <1>0 DEF Forms
<1>2. TypeOK'
  BY <1>0 DEF TypeOK
<1>3. Fresh' /\ OneOpenPerTarget'
  BY <1>0 DEF Fresh, OneOpenPerTarget, IsOpen
<1>4. Backing'
  BY <1>0 DEF Backing, Backed, SameRequest
<1> QED BY <1>1, <1>2, <1>3, <1>4 DEF RecordInv

LEMMA NextRecord == RecordInv /\ [Next]_vars => RecordInv'
<1> SUFFICES ASSUME RecordInv, [Next]_vars
             PROVE  RecordInv'
  OBVIOUS
<1>0. /\ TypeOK /\ Fresh /\ Backing /\ Forms /\ OneOpenPerTarget
      /\ call \in [Calls -> Call] /\ bookings \in [Calls -> Booking]
      /\ token \in [Browsers -> Token] /\ panel \in [Panels -> Form]
      /\ failures \in 0 .. MaxFailures
  BY DEF RecordInv, TypeOK
<1>1. ASSUME NEW c \in Calls, Resolve(c)
      PROVE  RecordInv'
  <2>1. /\ call' \in [Calls -> Call]
        /\ \A d \in Calls \ {c} : call'[d] = call[d]
        /\ call'[c].stage = "check" /\ call'[c].target = call[c].target
        /\ call'[c].answer = call[c].answer
    <3>1. Identity(c) \in Token
      BY <1>0 DEF Identity, Token, Call
    <3> QED BY <1>0, <1>1, <3>1, CallNames DEF Resolve, Call
  <2>2. call[c].stage = "resolve" /\ call[c].answer = "none" /\ bookings[c].status = "absent"
    BY <1>0, <1>1 DEF Resolve, Fresh
  <2> QED BY <1>0, <1>1, <2>1, <2>2, ReadStep DEF Resolve
<1>2. ASSUME NEW c \in Calls, ResolveNothing(c)
      PROVE  RecordInv'
  <2>1. Answers(c, "resolve", "notFound") /\ "notFound" \in Answer
    BY <1>2, CallNames DEF ResolveNothing
  <2> QED BY <1>0, <1>2, <2>1, AnswersType, ReadStep DEF ResolveNothing
<1>3. ASSUME NEW c \in Calls, Check(c)
      PROVE  RecordInv'
  <2>1. Moves(c, "check", "insert") /\ "insert" \in Stage /\ call[c].stage = "check"
    BY <1>3, CallNames DEF Check, Moves
  <2>2. call[c].answer = "none" /\ bookings[c].status = "absent"
    BY <1>0, <2>1 DEF Fresh
  <2> QED BY <1>0, <1>3, <2>1, <2>2, MovesType, ReadStep DEF Check
<1>4. ASSUME NEW c \in Calls, CheckConflict(c)
      PROVE  RecordInv'
  <2>1. Answers(c, "check", "conflict") /\ "conflict" \in Answer
    BY <1>4, CallNames DEF CheckConflict
  <2>2. Backed(c) /\ bookings' = bookings
    BY <1>4 DEF CheckConflict, Backed, IsOpen
  <2>3. call'[c].target = call[c].target /\ call'[c].session = call[c].session
    BY <1>0, <2>1, AnswersType
  <2>4. Backed(c)'
    BY <2>2, <2>3, BackedStays DEF RowsKept
  <2> QED BY <1>0, <1>4, <2>1, <2>4, AnswersType, ReadStep DEF CheckConflict
<1>5. ASSUME NEW c \in Calls, Insert(c)
      PROVE  RecordInv'
  <2>1. Moves(c, "insert", "list") /\ "list" \in Stage /\ call[c].stage = "insert"
    BY <1>5, CallNames DEF Insert, Moves
  <2>2. /\ call' \in [Calls -> Call]
        /\ \A d \in Calls \ {c} : call'[d] = call[d]
        /\ call'[c].stage = "list" /\ call'[c].answer = call[c].answer
        /\ call'[c].target = call[c].target /\ call'[c].session = call[c].session
    BY <1>0, <2>1, MovesType
  <2>3. call[c].answer = "none" /\ bookings[c].status = "absent"
    BY <1>0, <2>1 DEF Fresh
  <2>4. /\ bookings' \in [Calls -> Booking]
        /\ bookings'[c].status = "requested"
        /\ bookings'[c].session = call[c].session /\ bookings'[c].target = call[c].target
        /\ \A d \in Calls \ {c} : bookings'[d] = bookings[d]
    BY <1>0, <1>5 DEF Insert, Booking, Call
  <2>5. RowsKept
    BY <2>3, <2>4 DEF RowsKept
  <2>6. Backed(c)'
    BY <2>2, <2>4 DEF Backed, SameRequest
  <2>7. Backing' /\ Forms'
    BY <1>5, <2>1, <2>2, <2>3, <2>5, <2>6, HandlerStep DEF Insert
  <2>8. TypeOK'
    BY <1>0, <1>5, <2>2, <2>3, <2>4 DEF TypeOK, Insert
  <2>9. Fresh'
    BY <1>0, <2>2, <2>3, <2>4 DEF Fresh
  <2>10. OneOpenPerTarget'
    BY <1>0, <1>5, <2>2, <2>4 DEF OneOpenPerTarget, IsOpen, Insert, Clash, SameRequest
  <2> QED BY <2>7, <2>8, <2>9, <2>10 DEF RecordInv
<1>6. ASSUME NEW c \in Calls, InsertClash(c)
      PROVE  RecordInv'
  <2>1. Answers(c, "insert", "crash") /\ "crash" \in Answer
    BY <1>6, CallNames DEF InsertClash
  <2> QED BY <1>0, <1>6, <2>1, AnswersType, ReadStep DEF InsertClash
<1>7. ASSUME NEW c \in Calls, Created(c)
      PROVE  RecordInv'
  <2>1. Answers(c, "list", "created") /\ "created" \in Answer /\ call[c].stage = "list"
    BY <1>7, CallNames DEF Created, Answers
  <2>2. call'[c].target = call[c].target /\ call'[c].session = call[c].session
    BY <1>0, <2>1, AnswersType
  <2>3. Backed(c)'
    BY <1>0, <1>7, <2>1, <2>2, BackedStays DEF RowsKept, Backing, Created
  <2> QED BY <1>0, <1>7, <2>1, <2>3, AnswersType, ReadStep DEF Created
<1>8. ASSUME NEW c \in Calls, StatementRaises(c)
      PROVE  RecordInv'
  <2>1. Answers(c, call[c].stage, "crash") /\ "crash" \in Answer
    BY <1>8, CallNames DEF StatementRaises
  <2>2. failures' \in 0 .. MaxFailures
    BY <1>0, <1>8, ConstantsAssumption DEF StatementRaises
  <2> QED BY <1>0, <1>8, <2>1, <2>2, AnswersType, ReadStep DEF StatementRaises
<1>9. ASSUME NEW c \in Calls, AcceptPlan(c)
      PROVE  RecordInv'
  <2>1. /\ call' \in [Calls -> Call]
        /\ \A d \in Calls \ {c} : call'[d] = call[d]
        /\ call'[c].stage = "answered" /\ call'[c].target = call[c].target
        /\ call'[c].answer = "accepted" /\ call'[c].session \in Calls
    <3>1. Identity(c) \in Calls /\ Identity(c) \in Token
      BY <1>0 DEF Identity, Token, Call
    <3> QED BY <1>0, <1>9, <3>1, CallNames DEF AcceptPlan, Call
  <2> QED BY <1>0, <1>9, <2>1, ReadStep DEF AcceptPlan
<1>10. ASSUME NEW c \in Calls, Close(c)
       PROVE  RecordInv'
  <2> DEFINE d == call[c].subject
  <2>1. Answers(c, "close", "withdrawn") /\ "withdrawn" \in Answer /\ call[c].stage = "close"
    BY <1>10, CallNames DEF Close, Answers
  <2>2. d \in Calls /\ call[c].answer = "none"
    BY <1>0, <2>1 DEF TypeOK, Fresh
  <2>3. /\ call' \in [Calls -> Call]
        /\ \A e \in Calls \ {c} : call'[e] = call[e]
        /\ call'[c].stage = "answered" /\ call'[c].answer = "withdrawn"
        /\ call'[c].target = call[c].target
    BY <1>0, <2>1, AnswersType
  <2>4. bookings[d].status = "requested"
    BY <1>10 DEF Close, Withdrawable, IsOpen
  <2>5. /\ bookings' \in [Calls -> Booking]
        /\ bookings'[d].status = "withdrawn"
        /\ bookings'[d].session = bookings[d].session
        /\ bookings'[d].target = bookings[d].target
        /\ \A e \in Calls \ {d} : bookings'[e] = bookings[e]
    BY <1>0, <1>10, <2>2 DEF Close, Booking
  <2>6. RowsKept
    BY <2>4, <2>5 DEF RowsKept
  <2>7. Backing' /\ Forms'
    BY <1>10, <2>1, <2>2, <2>3, <2>6, HandlerStep DEF Close
  <2>8. TypeOK'
    BY <1>0, <1>10, <2>3, <2>5 DEF TypeOK, Close
  <2>9. Fresh'
    BY <1>0, <2>3, <2>4, <2>5 DEF Fresh
  <2>10. OneOpenPerTarget'
    BY <1>0, <2>2, <2>5, <2>6, OpenKept DEF IsOpen
  <2> QED BY <2>7, <2>8, <2>9, <2>10 DEF RecordInv
<1>11. ASSUME NEW c \in Calls, CloseNothing(c)
       PROVE  RecordInv'
  <2>1. Answers(c, "close", "notFound") /\ "notFound" \in Answer
    BY <1>11, CallNames DEF CloseNothing
  <2> QED BY <1>0, <1>11, <2>1, AnswersType, ReadStep DEF CloseNothing
<1>12. ASSUME NEW c \in Calls, NEW p \in Panels, Submit(p, c)
       PROVE  RecordInv'
  <2> DEFINE b == BrowserOf[p]
  <2>1. b \in Browsers /\ TargetOf[p] \in Targets /\ OwnToken(b, c) \in Token
    BY <1>0, ConstantsAssumption DEF OwnToken, Token
  <2>2. token' \in [Browsers -> Token]
    BY <1>0, <1>12, <2>1 DEF Submit
  <2>3. /\ call' \in [Calls -> Call]
        /\ \A d \in Calls \ {c} : call'[d] = call[d]
        /\ call'[c].stage = "resolve" /\ call'[c].answer = "none"
        /\ call'[c].target = TargetOf[p]
    BY <1>0, <1>12, <2>1, UnusedIsCall, CallNames DEF Submit, Call, Unused
  <2>4. /\ panel' \in [Panels -> Form] /\ panel'[p].ui = "busy" /\ panel'[p].pending = c
        /\ \A q \in Panels \ {p} : panel'[q] = panel[q]
        /\ call[c].stage = "unused" /\ bookings' = bookings
        /\ published' = published /\ failures' = failures
    BY <1>0, <1>12 DEF Submit, Form, Token
  <2>5. call[c].answer = "none" /\ bookings[c].status = "absent"
    BY <1>0, <2>4 DEF Fresh
  <2>6. TypeOK'
    BY <1>0, <2>2, <2>3, <2>4 DEF TypeOK
  <2>7. Fresh'
    BY <1>0, <2>3, <2>4, <2>5 DEF Fresh
  <2>8. Backing'
    <3> SUFFICES ASSUME NEW d \in Calls,
                        (call'[d].stage = "list" \/ call'[d].answer \in {"created", "conflict"})
                 PROVE  Backed(d)'
      BY DEF Backing
    <3>1. d # c
      BY <2>3
    <3> QED BY <1>0, <2>3, <2>4, <3>1, BackedStays DEF Backing, RowsKept
  <2>9. Forms'
    BY <1>0, <2>3, <2>4 DEF Forms
  <2>10. OneOpenPerTarget'
    BY <1>0, <2>4 DEF OneOpenPerTarget, IsOpen
  <2> QED BY <2>6, <2>7, <2>8, <2>9, <2>10 DEF RecordInv
<1>13. ASSUME NEW c \in Calls, NEW b \in Browsers, Plan(b, c)
       PROVE  RecordInv'
  <2>1. /\ call' \in [Calls -> Call]
        /\ \A d \in Calls \ {c} : call'[d] = call[d]
        /\ call'[c].stage = "accept" /\ call'[c].answer = "none"
    BY <1>0, <1>13, UnusedIsCall, CallNames DEF Plan, Call, Unused
  <2> QED BY <1>0, <1>13, <2>1, SendStep DEF Plan
<1>14. ASSUME NEW c \in Calls, NEW b \in Browsers, PlanAccepted(b, c)
       PROVE  RecordInv'
  <2>1. /\ call' \in [Calls -> Call]
        /\ \A d \in Calls \ {c} : call'[d] = call[d]
        /\ call'[c].stage = "answered" /\ call'[c].answer = "none"
        /\ call'[c].target = call[c].target
        /\ call[c].stage = "answered" /\ call[c].answer = "accepted"
    BY <1>0, <1>14, CallNames DEF PlanAccepted, Waiting, Call
  <2>2. token' \in [Browsers -> Token]
    BY <1>0, <1>14 DEF PlanAccepted, Call
  <2>3. RowsKept
    BY <1>14 DEF RowsKept, PlanAccepted
  <2>4. Backing' /\ Forms'
    BY <1>14, <2>1, <2>3, HandlerStep DEF PlanAccepted
  <2>5. TypeOK'
    BY <1>0, <1>14, <2>1, <2>2 DEF TypeOK, PlanAccepted
  <2>6. Fresh' /\ OneOpenPerTarget'
    BY <1>0, <1>14, <2>1 DEF Fresh, OneOpenPerTarget, IsOpen, PlanAccepted
  <2> QED BY <2>4, <2>5, <2>6 DEF RecordInv
<1>15. ASSUME NEW c \in Calls, NEW b \in Browsers, NEW d \in Calls, Withdraw(b, c, d)
       PROVE  RecordInv'
  <2>1. /\ call' \in [Calls -> Call]
        /\ \A e \in Calls \ {c} : call'[e] = call[e]
        /\ call'[c].stage = "close" /\ call'[c].answer = "none" /\ call'[c].subject = d
    BY <1>0, <1>15, UnusedIsCall, CallNames DEF Withdraw, Call, Unused, Token
  <2> QED BY <1>0, <1>15, <2>1, SendStep DEF Withdraw
<1>16. ASSUME NEW g \in Targets, Publish(g)
       PROVE  RecordInv'
  <2>1. TypeOK'
    BY <1>0, <1>16 DEF TypeOK, Publish
  <2>2. Fresh' /\ Forms' /\ OneOpenPerTarget'
    BY <1>0, <1>16 DEF Fresh, Forms, OneOpenPerTarget, IsOpen, Publish
  <2>3. Backing'
    BY <1>0, <1>16 DEF Backing, Backed, SameRequest, Publish
  <2> QED BY <2>1, <2>2, <2>3 DEF RecordInv
<1>17. ASSUME NEW p \in Panels, Receive(p)
       PROVE  RecordInv'
  <2> DEFINE c == panel[p].pending
  <2>1. BrowserOf[p] \in Browsers /\ c \in Calls
    BY <1>0, <1>17, ConstantsAssumption DEF Receive, TypeOK
  <2>2. token' \in [Browsers -> Token]
    BY <1>0, <1>17, <2>1 DEF Receive, Call
  <2>3. /\ panel' \in [Panels -> Form]
        /\ \A q \in Panels \ {p} : panel'[q] = panel[q]
        /\ panel'[p].ui = Shown(call[c].answer) /\ panel'[p].pending = c
        /\ panel[p].ui = "busy"
    BY <1>0, <1>17, <2>1 DEF Receive, Form, Shown, Token
  <2>4. panel'[p].ui # "error" => call[c].answer \in {"created", "conflict"}
    BY <2>3 DEF Shown
  <2> QED BY <1>0, <1>17, <2>2, <2>3, <2>4, FormStep DEF Receive
<1>18. ASSUME NEW p \in Panels, LoseAnswer(p) \/ Reload(p)
       PROVE  RecordInv'
  <2>1. /\ panel' \in [Panels -> Form]
        /\ \A q \in Panels \ {p} : panel'[q] = panel[q]
        /\ panel'[p].ui \in {"open", "error"}
    BY <1>0, <1>18 DEF LoseAnswer, Reload, OpenForm, Form, Token
  <2> QED BY <1>0, <1>18, <2>1, FormStep DEF LoseAnswer, Reload
<1>19. CASE UNCHANGED vars
  <2>1. TypeOK' /\ Fresh' /\ Forms' /\ OneOpenPerTarget'
    BY <1>0, <1>19 DEF TypeOK, Fresh, Forms, OneOpenPerTarget, IsOpen, vars
  <2>2. Backing'
    BY <1>0, <1>19 DEF Backing, Backed, SameRequest, vars
  <2> QED BY <2>1, <2>2 DEF RecordInv
<1> QED
  BY <1>1, <1>2, <1>3, <1>4, <1>5, <1>6, <1>7, <1>8, <1>9, <1>10, <1>11, <1>12,
     <1>13, <1>14, <1>15, <1>16, <1>17, <1>18, <1>19
     DEF Next, Handler, Client

-----------------------------------------------------------------------------
(* Theorems.                                                                 *)

LEMMA RecordAlways == Spec => []RecordInv
BY InitRecord, NextRecord, PTL DEF Spec

\* Forms, calls, tokens and rows stay well typed; in particular an accepted
\* plan always names a session (create_plan).
THEOREM BookingsTypeCorrect == Spec => []TypeOK
BY RecordAlways, PTL DEF RecordInv

\* However the handlers of request_booking interleave, a session has one open
\* request per target.
THEOREM OneOpen == Spec => []OneOpenPerTarget
BY RecordAlways, PTL DEF RecordInv

\* A form that says "saved" or "already on your list" speaks of a request that
\* is on record, whatever answers were lost and whatever was withdrawn.
THEOREM SavedRecorded == Spec => []SavedIsOnRecord
<1>1. RecordInv => SavedIsOnRecord
  BY DEF RecordInv, Forms, Backing, Backed, SameRequest, SavedIsOnRecord
<1> QED BY <1>1, RecordAlways, PTL

\* Rows are closed by their own session, stay closed, and are never rewritten.
THEOREM OwnSessionCloses == Spec => OnlyItsSessionCloses
<1> DEFINE Allowed(d) ==
      bookings[d].status # "absent" /\ bookings'[d] # bookings[d] =>
       /\ bookings[d].status = "requested"
       /\ bookings'[d] = [bookings[d] EXCEPT !.status = "withdrawn"]
       /\ \E c \in Calls : /\ call[c].stage = "close" /\ call'[c].answer = "withdrawn"
                           /\ call[c].session = bookings[d].session
<1>1. ASSUME RecordInv, [Next]_vars, NEW d \in Calls,
             bookings[d].status # "absent", bookings'[d] # bookings[d]
      PROVE  Allowed(d)
  <2>0. TypeOK /\ Fresh
    BY <1>1 DEF RecordInv
  <2>1. ASSUME NEW c \in Calls, Close(c)
        PROVE  Allowed(d)
    <3>1. call[c].subject = d /\ call[c].subject \in Calls
      BY <1>1, <2>0, <2>1 DEF Close, TypeOK
    <3>2. bookings[d].status = "requested" /\ bookings[d].session = call[c].session
      BY <2>1, <3>1 DEF Close, Withdrawable, IsOpen
    <3>3. call[c].stage = "close" /\ call'[c].answer = "withdrawn"
      BY <2>0, <2>1, CallNames, AnswersType DEF Close, TypeOK
    <3>4. bookings'[d] = [bookings[d] EXCEPT !.status = "withdrawn"]
      BY <2>0, <2>1, <3>1 DEF Close, TypeOK
    <3> QED BY <3>2, <3>3, <3>4
  <2>2. ASSUME NEW c \in Calls, Insert(c)
        PROVE  Allowed(d)
    <3>1. bookings[c].status = "absent"
      BY <2>0, <2>2 DEF Insert, Moves, Fresh
    <3> QED BY <1>1, <2>0, <2>2, <3>1 DEF Insert, TypeOK
  <2>3. CASE bookings' = bookings
    BY <1>1, <2>3
  <2> QED
    BY <1>1, <2>1, <2>2, <2>3
       DEF Next, Handler, Client, Resolve, ResolveNothing, Check, CheckConflict, InsertClash,
           Created, StatementRaises, AcceptPlan, CloseNothing, Submit, Plan, PlanAccepted,
           Withdraw, Publish, Receive, LoseAnswer, Reload, vars
<1>2. RecordInv /\ [Next]_vars => [\A d \in Calls : Allowed(d)]_vars
  BY <1>1
<1> QED BY <1>2, RecordAlways, PTL DEF Spec, OnlyItsSessionCloses

-----------------------------------------------------------------------------
(* Whose list a request is on.                                               *)

\* What a call is, told from its own fields: a booking call carries a session
\* from the start, a plan call has neither a target nor a subject.
Kind(c) ==
  /\ call[c].stage = "unused" => call[c].session = None /\ call[c].target = None
  /\ call[c].stage # "unused" => call[c].browser \in Browsers
  /\ call[c].target # None => call[c].session # None
  /\ call[c].stage \in {"resolve", "check", "insert", "list"} => call[c].target # None
  /\ (call[c].stage = "accept" \/ call[c].answer = "accepted")
       => call[c].target = None /\ call[c].subject = None

\* The session a call carries is its browser's token, unless a plan was asked
\* for without one.
Carries(c) ==
  call[c].session # None =>
    \/ call[c].session = token[call[c].browser]
    \/ MintedForPlan(call[c].browser)

\* A row is that of the call it is named after.
RowOf(c) ==
  bookings[c].status # "absent" =>
    bookings[c].session = call[c].session /\ call[c].session # None

\* A form waits for a call of its own browser.
OwnCalls ==
  \A p \in Panels : panel[p].ui = "busy" => call[panel[p].pending].browser = BrowserOf[p]

ListInv ==
  /\ RecordInv
  /\ \A c \in Calls : Kind(c) /\ Carries(c) /\ RowOf(c)
  /\ OwnCalls

\* A step leaves what a sent call says of itself: only a session that was not
\* sent may still be minted.
Kept(c) ==
  call[c].stage # "unused" =>
    /\ call'[c].browser = call[c].browser
    /\ call'[c].target = call[c].target
    /\ call'[c].subject = call[c].subject
    /\ call[c].session # None => call'[c].session = call[c].session

\* A browser gets another token only where it had none, or a plan brought one.
TokensKept ==
  \A b \in Browsers : token'[b] = token[b] \/ token[b] = None \/ MintedForPlan(b)

RowsFromCalls ==
  \A d \in Calls : bookings'[d].status # "absent" =>
    \/ bookings'[d].session = call'[d].session /\ call'[d].session # None
    \/ bookings[d].status # "absent" /\ bookings'[d].session = bookings[d].session

LEMMA MintedStays ==
  ASSUME ListInv, \A c \in Calls : Kept(c), NEW b, MintedForPlan(b)
  PROVE  MintedForPlan(b)'
<1>1. PICK e \in Calls : /\ call[e].browser = b /\ call[e].session = e
                         /\ call[e].target = None /\ call[e].subject = None
  BY DEF MintedForPlan
<1>2. call[e].session # None
  BY <1>1, ConstantsAssumption
<1>3. call[e].stage # "unused"
  BY <1>2 DEF ListInv, Kind
<1>4. call'[e].browser = b /\ call'[e].session = e /\ call'[e].target = None /\ call'[e].subject = None
  BY <1>1, <1>2, <1>3 DEF Kept
<1> QED BY <1>4 DEF MintedForPlan

\* What a step has to respect for the requests to stay on their browser's list.
LEMMA ListStep ==
  ASSUME ListInv, RecordInv', TokensKept, RowsFromCalls,
         \A c \in Calls : Kept(c) /\ Kind(c)' /\ (call[c].session = None => Carries(c)'),
         \A p \in Panels : panel'[p].ui = "busy" =>
           panel'[p] = panel[p] \/ call'[panel'[p].pending].browser = BrowserOf[p]
  PROVE  ListInv'
<1>1. ASSUME NEW c \in Calls
      PROVE  Carries(c)'
  <2>1. CASE call[c].session = None
    BY <2>1
  <2>2. CASE call[c].session # None
    <3>0. PICK b : b = call[c].browser
      OBVIOUS
    <3>1. /\ b \in Browsers /\ call[c].stage # "unused"
          /\ call[c].session = token[b] \/ MintedForPlan(b)
      BY <2>2, <3>0 DEF ListInv, Kind, Carries
    <3>2. call'[c].browser = b /\ call'[c].session = call[c].session
      BY <2>2, <3>0, <3>1 DEF Kept
    <3>3. CASE MintedForPlan(b)
      <4>1. MintedForPlan(b)'
        BY <3>3, MintedStays
      <4>2. MintedForPlan(call[c].browser)'
        BY <3>2, <4>1 DEF MintedForPlan
      <4> QED BY <4>2 DEF Carries
    <3>4. CASE token'[b] = token[b] /\ call[c].session = token[b]
      BY <3>2, <3>4 DEF Carries
    <3> QED BY <2>2, <3>1, <3>3, <3>4 DEF TokensKept
  <2> QED BY <2>1, <2>2
<1>2. ASSUME NEW c \in Calls
      PROVE  RowOf(c)'
  <2> SUFFICES ASSUME bookings'[c].status # "absent",
                      bookings[c].status # "absent", bookings'[c].session = bookings[c].session
               PROVE  bookings'[c].session = call'[c].session /\ call'[c].session # None
    BY DEF RowOf, RowsFromCalls
  <2>1. call[c].stage # "unused"
    BY DEF ListInv, RecordInv, Fresh
  <2>2. bookings[c].session = call[c].session /\ call[c].session # None
    BY DEF ListInv, RowOf
  <2> QED BY <2>1, <2>2 DEF Kept
<1>3. OwnCalls'
  <2> SUFFICES ASSUME NEW p \in Panels, panel'[p].ui = "busy", panel'[p] = panel[p]
               PROVE  call'[panel'[p].pending].browser = BrowserOf[p]
    BY DEF OwnCalls
  <2>1. panel[p].pending \in Calls /\ call[panel[p].pending].stage # "unused"
    BY DEF ListInv, RecordInv, Forms
  <2>2. call[panel[p].pending].browser = BrowserOf[p]
    BY DEF ListInv, OwnCalls
  <2> QED BY <2>1, <2>2 DEF Kept
<1> QED BY <1>1, <1>2, <1>3 DEF ListInv

\* A handler moves on or answers without touching who asked for what.
LEMMA HandlerLists ==
  ASSUME ListInv, RecordInv', NEW c \in Calls, call[c].stage # "unused",
         \A d \in Calls \ {c} : call'[d] = call[d],
         call'[c].stage # "unused", call'[c].browser = call[c].browser,
         call'[c].target = call[c].target, call'[c].subject = call[c].subject,
         call'[c].session = call[c].session,
         call'[c].stage \in {"resolve", "check", "insert", "list"} =>
           call[c].stage \in {"resolve", "check", "insert", "list"},
         call'[c].stage # "accept", call'[c].answer # "accepted",
         token' = token, panel' = panel, RowsFromCalls
  PROVE  ListInv'
<1>1. ASSUME NEW d \in Calls
      PROVE  Kept(d) /\ Kind(d)' /\ (call[d].session = None => Carries(d)')
  <2>1. Kept(d)
    BY DEF Kept
  <2>2. Kind(d)'
    BY DEF ListInv, Kind
  <2>3. call[d].session = None => Carries(d)'
    BY DEF Carries
  <2> QED BY <2>1, <2>2, <2>3
<1>2. TokensKept
  BY DEF TokensKept
<1> QED BY <1>1, <1>2, ListStep

\* A browser sends a call under its token.
LEMMA SendLists ==
  ASSUME ListInv, RecordInv', NEW c \in Calls, call[c].stage = "unused",
         \A d \in Calls \ {c} : call'[d] = call[d],
         NEW b \in Browsers, call'[c].browser = b, call'[c].session = token'[b],
         \A a \in Browsers : token'[a] = token[a] \/ token[a] = None,
         Kind(c)', bookings' = bookings,
         \A p \in Panels : panel'[p].ui = "busy" =>
           panel'[p] = panel[p] \/ (panel'[p].pending = c /\ BrowserOf[p] = b)
  PROVE  ListInv'
<1>1. ASSUME NEW d \in Calls
      PROVE  Kept(d) /\ Kind(d)' /\ (call[d].session = None => Carries(d)')
  <2>1. CASE d = c
    BY <2>1 DEF Kept, Carries
  <2>2. CASE d # c
    <3>1. Kept(d) /\ Kind(d)'
      BY <2>2 DEF Kept, ListInv, Kind
    <3>2. call[d].session = None => Carries(d)'
      BY <2>2 DEF Carries
    <3> QED BY <3>1, <3>2
  <2> QED BY <2>1, <2>2
<1>2. TokensKept
  BY DEF TokensKept
<1>3. RowsFromCalls
  BY DEF RowsFromCalls
<1> QED BY <1>1, <1>2, <1>3, ListStep

\* A browser stores the session an answer names.
LEMMA StoreLists ==
  ASSUME ListInv, RecordInv', NEW c \in Calls, NEW b \in Browsers,
         \A d \in Calls \ {c} : call'[d] = call[d],
         call[c].stage = "answered", call[c].browser = b, call[c].session # None,
         \/ call' = call
         \/ call[c].answer = "accepted" /\ call' = [call EXCEPT ![c].answer = "none"],
         token' = [token EXCEPT ![b] = call[c].session] \/ token' = token,
         bookings' = bookings,
         \A p \in Panels : panel'[p].ui = "busy" => panel'[p] = panel[p]
  PROVE  ListInv'
<1>0. TypeOK /\ call \in [Calls -> Call] /\ token \in [Browsers -> Token]
  BY DEF ListInv, RecordInv, TypeOK
<1>1. ASSUME NEW d \in Calls
      PROVE  Kept(d) /\ Kind(d)' /\ (call[d].session = None => Carries(d)')
  <2>1. /\ call'[d].stage = call[d].stage /\ call'[d].browser = call[d].browser
        /\ call'[d].target = call[d].target /\ call'[d].subject = call[d].subject
        /\ call'[d].session = call[d].session
        /\ call'[d].answer \in {call[d].answer, "none"}
    BY <1>0 DEF Call
  <2>2. Kind(d)'
    BY <2>1 DEF ListInv, Kind
  <2>3. call[d].session = None => Carries(d)'
    BY <2>1 DEF Carries
  <2> QED BY <2>1, <2>2, <2>3 DEF Kept
<1>2. TokensKept
  <2>1. call[c].session = token[b] \/ MintedForPlan(b)
    BY DEF ListInv, Carries
  <2> QED BY <1>0, <2>1 DEF TokensKept
<1>3. RowsFromCalls
  BY DEF RowsFromCalls
<1> QED BY <1>1, <1>2, <1>3, ListStep

LEMMA InitLists == Init => ListInv
<1> SUFFICES ASSUME Init PROVE ListInv
  OBVIOUS
<1>1. \A c \in Calls : Kind(c) /\ Carries(c) /\ RowOf(c)
  BY DEF Init, Unused, NoBooking, Kind, Carries, RowOf
<1>2. OwnCalls
  BY DEF Init, OpenForm, OwnCalls
<1> QED BY <1>1, <1>2, InitRecord DEF ListInv

LEMMA NextLists == ListInv /\ [Next]_vars => ListInv'
<1> SUFFICES ASSUME ListInv, [Next]_vars
             PROVE  ListInv'
  OBVIOUS
<1>0. /\ RecordInv /\ RecordInv' /\ TypeOK /\ Fresh
      /\ call \in [Calls -> Call] /\ bookings \in [Calls -> Booking]
      /\ token \in [Browsers -> Token] /\ panel \in [Panels -> Form]
      /\ \A c \in Calls : Kind(c) /\ Carries(c) /\ RowOf(c)
  BY NextRecord DEF ListInv, RecordInv, TypeOK
<1>n. bookings' = bookings => RowsFromCalls
  BY DEF RowsFromCalls
<1>a. ASSUME NEW c \in Calls, NEW from \in Stage \ {"unused"}, NEW answer \in Answer \ {"accepted"},
             Answers(c, from, answer), token' = token, panel' = panel, RowsFromCalls
      PROVE  ListInv'
  <2>1. /\ \A d \in Calls \ {c} : call'[d] = call[d]
        /\ call[c].stage = from
        /\ call'[c].stage = "answered" /\ call'[c].answer = answer
        /\ call'[c].target = call[c].target /\ call'[c].session = call[c].session
        /\ call'[c].subject = call[c].subject
    BY <1>0, <1>a, AnswersType
  <2>2. call'[c].browser = call[c].browser
    BY <1>0, <1>a DEF Answers, Call
  <2> QED BY <1>a, <2>1, <2>2, <1>0, HandlerLists
<1>b. ASSUME NEW c \in Calls, NEW from \in {"check", "insert"}, NEW to \in {"insert", "list"},
             Moves(c, from, to), token' = token, panel' = panel, RowsFromCalls
      PROVE  ListInv'
  <2>1. /\ \A d \in Calls \ {c} : call'[d] = call[d]
        /\ call'[c].stage = to /\ call'[c].answer = call[c].answer
        /\ call'[c].target = call[c].target /\ call'[c].session = call[c].session
        /\ call'[c].subject = call[c].subject
    BY <1>0, <1>b, CallNames, MovesType
  <2>2. call'[c].browser = call[c].browser /\ call[c].stage = from
    BY <1>0, <1>b DEF Moves, Call
  <2>3. call[c].answer = "none"
    BY <1>0, <2>2 DEF Fresh
  <2> QED BY <1>b, <2>1, <2>2, <2>3, <1>0, HandlerLists
<1>1. ASSUME NEW c \in Calls, Resolve(c)
      PROVE  ListInv'
  <2>1. call[c].stage = "resolve" /\ call[c].session # None /\ call[c].answer = "none"
    BY <1>0, <1>1 DEF Resolve, Kind, Fresh
  <2>2. /\ \A d \in Calls \ {c} : call'[d] = call[d]
        /\ call'[c].stage = "check" /\ call'[c].target = call[c].target
        /\ call'[c].answer = call[c].answer /\ call'[c].subject = call[c].subject
        /\ call'[c].browser = call[c].browser /\ call'[c].session = call[c].session
    BY <1>0, <1>1, <2>1 DEF Resolve, Identity, Call
  <2> QED BY <1>0, <1>1, <1>n, <2>1, <2>2, HandlerLists DEF Resolve
<1>2. ASSUME NEW c \in Calls,
             ResolveNothing(c) \/ CheckConflict(c) \/ InsertClash(c) \/ Created(c) \/ CloseNothing(c)
      PROVE  ListInv'
  BY <1>2, <1>a, <1>n, CallNames DEF ResolveNothing, CheckConflict, InsertClash, Created, CloseNothing
<1>3. ASSUME NEW c \in Calls, Check(c)
      PROVE  ListInv'
  BY <1>3, <1>b, <1>n DEF Check
<1>4. ASSUME NEW c \in Calls, Insert(c)
      PROVE  ListInv'
  <2>1. call[c].stage = "insert" /\ call'[c].session = call[c].session
    BY <1>0, <1>4, CallNames, MovesType DEF Insert, Moves
  <2>2. call[c].session # None
    BY <1>0, <2>1 DEF Kind
  <2>3. RowsFromCalls
    BY <1>0, <1>4, <2>1, <2>2 DEF RowsFromCalls, Insert
  <2> QED BY <1>4, <1>b, <2>3 DEF Insert
<1>5. ASSUME NEW c \in Calls, StatementRaises(c)
      PROVE  ListInv'
  <2>1. call[c].stage \in Stage \ {"unused"}
    BY <1>0, <1>5 DEF StatementRaises, Call
  <2> QED BY <1>5, <1>a, <1>n, <2>1, CallNames DEF StatementRaises
<1>6. ASSUME NEW c \in Calls, AcceptPlan(c)
      PROVE  ListInv'
  <2>1. /\ call[c].stage = "accept" /\ call[c].target = None /\ call[c].subject = None
        /\ Identity(c) \in Calls
    BY <1>0, <1>6 DEF AcceptPlan, Kind, Identity, Call, Token
  <2>2. /\ \A d \in Calls \ {c} : call'[d] = call[d]
        /\ call'[c].stage = "answered" /\ call'[c].target = None /\ call'[c].subject = None
        /\ call'[c].browser = call[c].browser /\ call'[c].session = Identity(c)
    BY <1>0, <1>6, <2>1 DEF AcceptPlan, Call
  <2>3. ASSUME NEW d \in Calls
        PROVE  Kept(d) /\ Kind(d)'
    BY <1>0, <2>1, <2>2 DEF Kept, Kind, Identity
  <2>4. ASSUME NEW d \in Calls, call[d].session = None
        PROVE  Carries(d)'
    <3>1. CASE d # c
      BY <2>2, <2>4, <3>1 DEF Carries
    <3>2. CASE d = c
      <4>1. call'[c].session = c
        BY <2>2, <2>4, <3>2 DEF Identity
      <4>2. MintedForPlan(call[c].browser)'
        BY <2>2, <4>1 DEF MintedForPlan
      <4>3. Carries(c)'
        BY <4>2 DEF Carries
      <4> QED BY <3>2, <4>3
    <3> QED BY <3>1, <3>2
  <2>5. TokensKept /\ RowsFromCalls
    BY <1>6, <1>n DEF AcceptPlan, TokensKept
  <2> QED BY <1>0, <1>6, <2>3, <2>4, <2>5, ListStep DEF AcceptPlan
<1>7. ASSUME NEW c \in Calls, Close(c)
      PROVE  ListInv'
  <2>1. RowsFromCalls
    BY <1>0, <1>7 DEF Close, RowsFromCalls, Withdrawable, IsOpen, TypeOK, Booking
  <2> QED BY <1>7, <2>1, <1>a, CallNames DEF Close
<1>8. ASSUME NEW c \in Calls, NEW p \in Panels, Submit(p, c)
      PROVE  ListInv'
  <2> DEFINE b == BrowserOf[p]
  <2>1. b \in Browsers /\ TargetOf[p] \in Targets /\ TargetOf[p] # None
    BY ConstantsAssumption
  <2>2. OwnToken(b, c) # None /\ token'[b] = OwnToken(b, c)
    BY <1>0, <1>8, <2>1, ConstantsAssumption DEF OwnToken, Submit
  <2>3. \A a \in Browsers : token'[a] = token[a] \/ token[a] = None
    BY <1>0, <1>8, <2>1 DEF OwnToken, Submit
  <2>4. /\ \A d \in Calls \ {c} : call'[d] = call[d]
        /\ call'[c].stage = "resolve" /\ call'[c].browser = b /\ call'[c].answer = "none"
        /\ call'[c].session = token'[b] /\ call'[c].target = TargetOf[p]
    BY <1>0, <1>8, <2>2 DEF Submit, Unused
  <2>5. Kind(c)'
    BY <2>1, <2>2, <2>4 DEF Kind
  <2>6. \A q \in Panels : panel'[q].ui = "busy" =>
          panel'[q] = panel[q] \/ (panel'[q].pending = c /\ BrowserOf[q] = b)
    BY <1>0, <1>8 DEF Submit
  <2>7. call[c].stage = "unused" /\ bookings' = bookings
    BY <1>8 DEF Submit
  <2> QED BY <1>0, <2>1, <2>3, <2>4, <2>5, <2>6, <2>7, SendLists
<1>9. ASSUME NEW c \in Calls, NEW b \in Browsers,
             Plan(b, c) \/ \E d \in Calls : Withdraw(b, c, d)
      PROVE  ListInv'
  <2>1. /\ \A d \in Calls \ {c} : call'[d] = call[d]
        /\ call'[c].stage \in {"accept", "close"} /\ call'[c].browser = b
        /\ call'[c].answer = "none" /\ call'[c].session = token[b] /\ call'[c].target = None
        /\ call'[c].stage = "accept" => call'[c].subject = None
    <3>1. CASE Plan(b, c)
      BY <1>0, <3>1 DEF Plan, Unused
    <3>2. ASSUME NEW d \in Calls, Withdraw(b, c, d)
          PROVE  /\ \A e \in Calls \ {c} : call'[e] = call[e]
                 /\ call'[c].stage = "close" /\ call'[c].browser = b
                 /\ call'[c].answer = "none" /\ call'[c].session = token[b]
                 /\ call'[c].target = None
      BY <1>0, <3>2 DEF Withdraw, Unused
    <3> QED BY <1>9, <3>1, <3>2
  <2>2. /\ call[c].stage = "unused" /\ bookings' = bookings /\ token' = token /\ panel' = panel
    BY <1>9 DEF Plan, Withdraw
  <2>3. Kind(c)'
    BY <2>1 DEF Kind
  <2> QED BY <1>0, <2>1, <2>2, <2>3, SendLists
<1>10. ASSUME NEW c \in Calls, NEW b \in Browsers, PlanAccepted(b, c)
       PROVE  ListInv'
  <2>1. /\ call[c].stage = "answered" /\ call[c].browser = b /\ call[c].answer = "accepted"
        /\ token' = [token EXCEPT ![b] = call[c].session]
        /\ call' = [call EXCEPT ![c].answer = "none"]
        /\ bookings' = bookings /\ panel' = panel
    BY <1>10 DEF PlanAccepted, Waiting
  <2>2. call[c].session # None
    BY <1>0, <2>1, ConstantsAssumption DEF TypeOK
  <2>3. \A d \in Calls \ {c} : call'[d] = call[d]
    BY <1>0, <2>1
  <2> QED BY <1>0, <2>1, <2>2, <2>3, StoreLists
<1>11. ASSUME NEW p \in Panels, Receive(p)
       PROVE  ListInv'
  <2> DEFINE b == BrowserOf[p]
             c == panel[p].pending
  <2>1. /\ b \in Browsers /\ c \in Calls /\ call[c].stage = "answered"
        /\ call[c].target = TargetOf[p] /\ TargetOf[p] # None /\ call[c].browser = b
    <3>1. panel[p].ui = "busy" /\ b \in Browsers /\ TargetOf[p] \in Targets /\ TargetOf[p] # None
      BY <1>11, ConstantsAssumption DEF Receive
    <3>2. c \in Calls /\ call[c].target = TargetOf[p]
      BY <3>1 DEF RecordInv, Forms, ListInv
    <3>3. call[c].stage = "answered" /\ call[c].browser = b
      BY <1>11, <3>1 DEF Receive, ListInv, OwnCalls
    <3> QED BY <3>1, <3>2, <3>3
  <2>2. call[c].session # None
    BY <1>0, <2>1 DEF Kind
  <2>3. \A q \in Panels : panel'[q].ui = "busy" => panel'[q] = panel[q]
    BY <1>0, <1>11 DEF Receive, Shown
  <2>4. token' = [token EXCEPT ![b] = call[c].session] \/ token' = token
    BY <1>11 DEF Receive
  <2>5. call' = call /\ bookings' = bookings
    BY <1>11 DEF Receive
  <2> HIDE DEF b, c
  <2> QED BY <1>0, <2>1, <2>2, <2>3, <2>4, <2>5, StoreLists
<1>12. ASSUME call' = call, bookings' = bookings, token' = token,
              \A p \in Panels : panel'[p].ui = "busy" => panel'[p] = panel[p]
       PROVE  ListInv'
  <2>1. \A c \in Calls : Kept(c) /\ Kind(c)' /\ (call[c].session = None => Carries(c)')
    BY <1>0, <1>12 DEF Kept, Kind, Carries
  <2>2. TokensKept /\ RowsFromCalls
    BY <1>12, <1>n DEF TokensKept
  <2> QED BY <1>0, <1>12, <2>1, <2>2, ListStep
<1>13. ASSUME NEW p \in Panels, LoseAnswer(p) \/ Reload(p)
       PROVE  ListInv'
  <2>1. \A q \in Panels : panel'[q].ui = "busy" => panel'[q] = panel[q]
    BY <1>0, <1>13 DEF LoseAnswer, Reload, OpenForm
  <2> QED BY <1>12, <1>13, <2>1 DEF LoseAnswer, Reload
<1>14. ASSUME NEW g \in Targets, Publish(g)
       PROVE  ListInv'
  BY <1>12, <1>14 DEF Publish
<1>15. CASE UNCHANGED vars
  BY <1>12, <1>15 DEF vars
<1> QED
  BY <1>1, <1>2, <1>3, <1>4, <1>5, <1>6, <1>7, <1>8, <1>9, <1>10, <1>11, <1>13, <1>14, <1>15
     DEF Next, Handler, Client

\* A request stays on the list of the browser that made it (api.ts), whatever
\* answers were lost, came late or were never read: only a token minted for a
\* plan may replace the one it was made under.
THEOREM RequestsAreListed == Spec => []RecordedIsListed
<1>1. ListInv => RecordedIsListed
  BY DEF ListInv, RowOf, Carries, RecordedIsListed
<1>2. Spec => []ListInv
  BY InitLists, NextLists, PTL DEF Spec
<1> QED BY <1>1, <1>2, PTL

\* request_booking refuses a request only while another one, open at that very
\* moment, stands for the same session and target.
THEOREM RefusedWhileOpen == Spec => RefusedOnlyWhileOpen
<1> DEFINE Justified(c) ==
      (call[c].stage \in {"check", "insert"} /\ call'[c].answer \in {"conflict", "crash"}
         /\ failures' = failures)
        => \E d \in Calls : d # c /\ IsOpen(d) /\ SameRequest(c, d)
<1>1. ASSUME RecordInv, [Next]_vars, NEW c \in Calls,
             call[c].stage \in {"check", "insert"}, call'[c].answer \in {"conflict", "crash"},
             failures' = failures
      PROVE  \E d \in Calls : d # c /\ IsOpen(d) /\ SameRequest(c, d)
  <2>0. /\ call \in [Calls -> Call] /\ failures \in 0 .. MaxFailures /\ MaxFailures \in Nat
        /\ call[c].answer = "none" /\ bookings[c].status = "absent"
    BY <1>1, ConstantsAssumption DEF RecordInv, TypeOK, Fresh
  <2>1. call'[c] # call[c]
    BY <1>1, <2>0
  <2>2. CASE CheckConflict(c) \/ InsertClash(c)
    BY <2>0, <2>2 DEF CheckConflict, InsertClash, Clash, IsOpen
  <2>3. ASSUME NEW e \in Calls, Handler(e)
        PROVE  CheckConflict(c) \/ InsertClash(c)
    <3>1. e = c
      BY <2>0, <2>1, <2>3
         DEF Handler, Resolve, ResolveNothing, Check, CheckConflict, Insert, InsertClash, Created,
             StatementRaises, AcceptPlan, Close, CloseNothing, Moves, Answers
    <3>2. ~StatementRaises(c)
      BY <1>1, <2>0 DEF StatementRaises
    <3>3. ~Resolve(c) /\ ~ResolveNothing(c) /\ ~Created(c) /\ ~AcceptPlan(c) /\ ~Close(c)
          /\ ~CloseNothing(c)
      BY <1>1 DEF Resolve, ResolveNothing, Created, AcceptPlan, Close, CloseNothing, Answers
    <3>4. ~Check(c) /\ ~Insert(c)
      BY <1>1, <2>0 DEF Check, Insert, Moves, Call
    <3> QED BY <2>3, <3>1, <3>2, <3>3, <3>4 DEF Handler
  <2>4. ASSUME NEW e \in Calls, Client(e)
        PROVE  FALSE
    BY <1>1, <2>0, <2>1, <2>4 DEF Client, Submit, Plan, PlanAccepted, Waiting, Withdraw
  <2>5. CASE call' = call
    BY <2>1, <2>5
  <2> QED
    BY <1>1, <2>2, <2>3, <2>4, <2>5 DEF Next, Publish, Receive, LoseAnswer, Reload, vars
<1>2. RecordInv /\ [Next]_vars => [\A c \in Calls : Justified(c)]_vars
  BY <1>1
<1> QED BY <1>2, RecordAlways, PTL DEF Spec, RefusedOnlyWhileOpen
=============================================================================
