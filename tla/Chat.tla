------------------------------- MODULE Chat -------------------------------
(***************************************************************************)
(* The chat: messages with buttons, updates (button presses and commands), *)
(* the handlers that answer them and the error middleware around all of    *)
(* them.  What the called services do is the subject of BotLifecycle and   *)
(* Advisor; here a call of a service returns or raises.                    *)
(*                                                                         *)
(* Telegram keeps an update until a later poll confirms it.  The polling   *)
(* of aiogram starts a task for each update it gets and polls again, so an *)
(* update is lost or delivered twice when the process ends.  A handler is  *)
(* a list of awaits: `at` is the one its task is suspended at, and each    *)
(* action takes it to the next, or into the middleware.                    *)
(***************************************************************************)
EXTENDS Naturals, Sequences

CONSTANTS
    Updates,      \* update ids
    Cards,        \* messages with buttons
    Boards,       \* keyboards the jobs send
    Typed,        \* commands the user types
    None,         \* Python's None
    MaxAge,       \* _MAX_MESSAGE_AGE_SECONDS
    QueryLife,    \* how long Telegram takes an answer to a press
    Horizon,      \* bound: the clock stops here
    MaxCrashes    \* bound on restarts

VARIABLES
    now,       \* wall clock
    up,        \* the process is polling
    crashes,   \* restarts so far
    cards,     \* when each card was sent, and the buttons it still shows
    updates    \* what happened to each update

vars == <<now, up, crashes, cards, updates>>

Times == 0..Horizon

Launches == {"auto", "manual"}
Commands == {"command", "propose", "assess", "verdict", "status", "show"}

\* The buttons of a digest, and of the alert of a GREEN, YELLOW or RED bot.
DigestButtons == Launches
GreenButtons == {"pause", "close"}
YellowButtons == GreenButtons \cup {"reconfigure", "details"}
RedButtons == YellowButtons \cup {"acknowledge"}
Keyboards == {DigestButtons, GreenButtons, YellowButtons, RedButtons}
Buttons == UNION Keyboards
Kinds == Buttons \cup Commands
Card == [at : Times, buttons : SUBSET Buttons]

ASSUME ChatOK ==
    /\ Boards \subseteq Keyboards /\ Typed \subseteq Commands
    /\ None \notin Cards /\ None \notin Kinds /\ None \notin Times
    /\ None \notin Card
    /\ {MaxAge, QueryLife, Horizon, MaxCrashes} \subseteq Nat

---------------------------------------------------------------------------
(* The handlers *)

\* Mutant of LaunchSteps: the press is answered last, as the other buttons do.
LaunchStepsLast == <<"act", "edit", "answer">>

LaunchSteps == <<"answer", "act", "edit">>

\* Mutant of ActionSteps: the card is edited before the service is called.
ActionStepsEager == <<"edit", "act", "answer">>

ActionSteps == <<"act", "edit", "answer">>

\* The awaits of each handler.  "command" is /pause, /resume and /close,
\* "propose" /reconfigure, "assess" the weekly and the daily assessment,
\* "show" /start, /help, /settings and a command without its symbol.  No
\* handler is registered for "details".
Script ==
    [auto |-> LaunchSteps, manual |-> LaunchSteps,
     pause |-> ActionSteps, close |-> ActionSteps, reconfigure |-> ActionSteps,
     acknowledge |-> <<"strip", "answer">>, details |-> <<>>,
     command |-> <<"act", "reply">>, propose |-> <<"reply", "act", "reply">>,
     assess |-> <<"reply", "assess", "reply">>,
     verdict |-> <<"recall", "reply">>, status |-> <<"read", "reply">>,
     show |-> <<"reply">>]

Steps == {"answer", "act", "edit", "strip", "reply", "assess", "recall", "read"}
States == {"free", "queued", "running", "failing", "ended", "lost"}
Places == 0..4
Sometime == Times \cup {None}

Update == [state : States,
           kind : Kinds \cup {None},
           card : Cards \cup {None},       \* callback_query.message
           own : BOOLEAN,                  \* it carries a message itself
           born : Times, date : Times,     \* of the press, and of its message
           confirmed : BOOLEAN,
           at : Places,
           launched : Sometime,            \* when it last called a launch
           done : BOOLEAN,                 \* the service returned
           told : BOOLEAN,                 \* the user got to see something
           undelivered : BOOLEAN,          \* the error reply did not arrive
           ended : Times]

Free == [state |-> "free", kind |-> None, card |-> None, own |-> FALSE,
         born |-> 0, date |-> 0, confirmed |-> FALSE, at |-> 0, launched |-> None,
         done |-> FALSE, told |-> FALSE, undelivered |-> FALSE, ended |-> 0]

Awaits(u) == Script[u.kind]
Suspended(u, step) ==
    u.state = "running" /\ u.at \in 1..Len(Awaits(u)) /\ Awaits(u)[u.at] = step

\* Update u runs on to its await number n, or ends behind the last.
Reach(u, n) ==
    IF n > Len(Awaits(u)) THEN [u EXCEPT !.at = n, !.state = "ended", !.ended = now]
    ELSE [u EXCEPT !.at = n, !.state = "running",
                   !.launched = IF Awaits(u)[n] = "act" /\ u.kind \in Launches THEN now ELSE @]

Onward(u) == Reach(u, u.at + 1)

---------------------------------------------------------------------------
(* The error middleware *)

\* Mutant of HasTarget: without the last branch, for which an Update with a
\* message of its own falls through the branch for updates.
HasTargetOfPress(u) == u.card # None

\* _extract_chat_info finds a chat.
HasTarget(u) == u.card # None \/ u.own

\* Mutant of TooOld: no reply at the age itself either.
TooOldAlready(u) == now - u.date >= MaxAge

\* The message is old: for a press the one with the buttons.  A message that
\* was deleted meanwhile has no date, and takes no reply either.
TooOld(u) == now - u.date > MaxAge

\* An exception left the handler.
Raised(u) ==
    IF HasTarget(u) /\ ~TooOld(u) THEN [u EXCEPT !.state = "failing"]
    ELSE [u EXCEPT !.state = "ended", !.ended = now]

---------------------------------------------------------------------------
(* The user, and the cards the jobs send *)

Become(i, u) == updates' = [updates EXCEPT ![i] = u]

\* send_digest, send_health_alert.
SendCard(m, keyboard) ==
    /\ up /\ cards[m] = None
    /\ cards' = [cards EXCEPT ![m] = [at |-> now, buttons |-> keyboard]]
    /\ UNCHANGED <<now, up, crashes, updates>>

Sent(kind, card, own, date) ==
    [Free EXCEPT !.state = "queued", !.kind = kind, !.card = card, !.own = own,
                 !.born = now, !.date = date]

\* A button is pressed.
Press(i, m, b) ==
    /\ updates[i] = Free /\ cards[m] # None /\ b \in cards[m].buttons
    /\ Become(i, Sent(b, m, FALSE, cards[m].at))
    /\ UNCHANGED <<now, up, crashes, cards>>

\* A command is typed.
Type(i, k) ==
    /\ updates[i] = Free
    /\ Become(i, Sent(k, None, TRUE, now))
    /\ UNCHANGED <<now, up, crashes, cards>>

---------------------------------------------------------------------------
(* The process *)

Taken(u) == u.state \in {"running", "failing", "ended"}

\* get_updates: confirms what was taken before, starts a task for the rest.
Poll ==
    /\ up
    /\ \E i \in Updates : updates[i].state = "queued" \/ (Taken(updates[i]) /\ ~updates[i].confirmed)
    /\ updates' = [i \in Updates |->
           LET u == updates[i] IN
           IF u.state = "queued" THEN Reach(u, 1)
           ELSE IF Taken(u) THEN [u EXCEPT !.confirmed = TRUE] ELSE u]
    /\ UNCHANGED <<now, up, crashes, cards>>

\* The loop of an assessment catches the failures of its symbols, the provider
\* swallows that of the read of the verdict.
NeverRaise == {"assess", "recall"}

\* Any other await may raise: the call failed, the service refused, nothing was
\* to be changed in the message, or it is gone.
Fail(i) ==
    LET u == updates[i] IN
    /\ u.state = "running" /\ Awaits(u)[u.at] \notin NeverRaise
    /\ Become(i, Raised(u))
    /\ UNCHANGED <<now, up, crashes, cards>>

\* callback_query.answer(): only the auto launch has a text.
Answer(i) ==
    LET u == updates[i] IN
    /\ Suspended(u, "answer") /\ now - u.born <= QueryLife
    /\ Become(i, Onward(IF u.kind = "auto" THEN [u EXCEPT !.told = TRUE] ELSE u))
    /\ UNCHANGED <<now, up, crashes, cards>>

\* The service returns, or the reads of /status and /verdict, or the loop of an
\* assessment, with whatever they found or failed to do.
Return(i) ==
    LET u == updates[i] IN
    /\ \E step \in {"act", "read", "assess", "recall"} : Suspended(u, step)
    /\ Become(i, Onward([u EXCEPT !.done = TRUE]))
    /\ UNCHANGED <<now, up, crashes, cards>>

\* edit_text, edit_reply_markup: the card loses its buttons.
Edit(i) ==
    LET u == updates[i] IN
    /\ Suspended(u, "edit") \/ Suspended(u, "strip")
    /\ cards' = [cards EXCEPT ![u.card].buttons = {}]
    /\ Become(i, Onward([u EXCEPT !.told = TRUE]))
    /\ UNCHANGED <<now, up, crashes>>

\* message.reply, message.answer.
Reply(i) ==
    LET u == updates[i] IN
    /\ Suspended(u, "reply")
    /\ Become(i, Onward([u EXCEPT !.told = TRUE]))
    /\ UNCHANGED <<now, up, crashes, cards>>

\* The reply of the middleware arrives, or its failure is swallowed.
ErrorReply(i) ==
    LET u == updates[i] IN
    /\ u.state = "failing"
    /\ \/ Become(i, [u EXCEPT !.state = "ended", !.ended = now, !.told = TRUE])
       \/ Become(i, [u EXCEPT !.state = "ended", !.ended = now, !.undelivered = TRUE])
    /\ UNCHANGED <<now, up, crashes, cards>>

Run(i) == Fail(i) \/ Answer(i) \/ Return(i) \/ Edit(i) \/ Reply(i) \/ ErrorReply(i)

\* What a crash makes of an update: unconfirmed ones come again.
Interrupted(u) ==
    IF Taken(u) /\ ~u.confirmed THEN [u EXCEPT !.state = "queued", !.at = 0]
    ELSE IF u.state \in {"running", "failing"} THEN [u EXCEPT !.state = "lost"] ELSE u

Crash ==
    /\ up /\ crashes < MaxCrashes
    /\ up' = FALSE /\ crashes' = crashes + 1
    /\ updates' = [i \in Updates |-> Interrupted(updates[i])]
    /\ UNCHANGED <<now, cards>>

Start == ~up /\ up' = TRUE /\ UNCHANGED <<now, crashes, cards, updates>>

Tick == now < Horizon /\ now' = now + 1 /\ UNCHANGED <<up, crashes, cards, updates>>

---------------------------------------------------------------------------
Init ==
    /\ now = 0 /\ up = TRUE /\ crashes = 0
    /\ cards = [m \in Cards |-> None]
    /\ updates = [i \in Updates |-> Free]

Next ==
    \/ \E m \in Cards, keyboard \in Boards : SendCard(m, keyboard)
    \/ \E i \in Updates, m \in Cards, b \in UNION Boards : Press(i, m, b)
    \/ \E i \in Updates, k \in Typed : Type(i, k)
    \/ Poll
    \/ \E i \in Updates : Run(i)
    \/ Crash \/ Start \/ Tick

Spec == Init /\ [][Next]_vars

---------------------------------------------------------------------------
(* Properties *)

\* Every variable has its type, and no handler runs while the process is down.
TypeOK ==
    /\ now \in Times /\ up \in BOOLEAN /\ crashes \in 0..MaxCrashes
    /\ cards \in [Cards -> Card \cup {None}]
    /\ updates \in [Updates -> Update]
    /\ ~up => \A i \in Updates : updates[i].state \notin {"running", "failing"}

\* launch_grid_handlers answers the press before it launches: a press that
\* waited too long, while the process was down or because Telegram delivers it
\* once more after a restart, raises there and launches nothing.  A launch is
\* only called while Telegram still takes an answer to its press.
LaunchesInTime ==
    \A i \in Updates : LET u == updates[i] IN
        u.launched # None => u.launched <= u.born + QueryLife

\* ErrorMiddleware: a handler that ended without a word to the user either has
\* none to say, or failed on a message that was too old for a reply, or its
\* reply did not arrive.
SilenceExplained ==
    \A i \in Updates : LET u == updates[i] IN
        u.state = "ended" /\ ~u.told =>
            Awaits(u) = <<>> \/ u.undelivered \/ u.ended > u.date + MaxAge

\* A digest or alert keeps its buttons until the service behind one of them
\* returned, or the alert was acknowledged: what failed can be pressed again.
ButtonsUntilDone ==
    \A m \in Cards : cards[m] # None /\ cards[m].buttons = {} =>
        \E i \in Updates : LET u == updates[i] IN
            u.card = m /\ (u.done \/ u.kind = "acknowledge")

==============================================================================
