---------------------------- MODULE ChatProofs ----------------------------
(***************************************************************************)
(* Proofs about Chat, for any number of updates, cards and restarts, and   *)
(* any limits.  All invariants follow from one about a single update       *)
(* (Fine), which rests on the order of the awaits in the handlers          *)
(* (ScriptFacts).                                                          *)
(***************************************************************************)
EXTENDS Chat, TLAPS

\* What the proofs need of one update: where it stands in its handler, what
\* was said and done before, and the two properties about it.
Placed(u) ==
    /\ u.state # "free" => u.kind # None
    /\ u.kind # None => u.card # None \/ u.own
    /\ u.kind \in Buttons => u.card # None
    /\ u.state = "running" => u.kind # None /\ u.at \in 1..Len(Awaits(u))

Said(u) ==
    u.state = "running" /\ u.at > 1 =>
        /\ Awaits(u)[u.at - 1] \in {"edit", "strip"} => u.told
        /\ Awaits(u)[u.at - 1] = "act" => u.done

InTime(u) == u.launched # None => u.launched <= u.born + QueryLife

Explained(u) ==
    u.state = "ended" /\ ~u.told =>
        Awaits(u) = <<>> \/ u.undelivered \/ u.ended > u.date + MaxAge

Fine(u) == Placed(u) /\ Said(u) /\ InTime(u) /\ Explained(u)

Shown ==
    \A i \in Updates : updates[i].card # None => cards[updates[i].card] # None

Inv == TypeOK /\ (\A i \in Updates : Fine(updates[i])) /\ Shown /\ ButtonsUntilDone

---------------------------------------------------------------------------
(* The handlers *)

\* The order of the awaits s in the handler of k: the card is edited after the
\* service returned, a launch is called after its press was answered, and the
\* last await tells something unless the one before did.
Orderly(s, k) ==
    /\ Len(s) \in 0..3
    /\ \A n \in 1..Len(s) :
          /\ s[n] \in Steps
          /\ s[n] = "edit" => n > 1 /\ s[n - 1] = "act" /\ k \in Buttons
          /\ s[n] = "strip" => k = "acknowledge" /\ k \in Buttons
          /\ s[n] = "act" /\ k \in Launches => n > 1 /\ s[n - 1] = "answer"
          /\ n = Len(s) => \/ s[n] \in {"edit", "reply"}
                           \/ s[n] = "answer" /\ n > 1 /\ s[n - 1] \in {"edit", "strip"}

LEMMA AllButtons ==
    Buttons = {"auto", "manual", "pause", "close", "reconfigure", "details", "acknowledge"}
BY DEF Buttons, Keyboards, DigestButtons, GreenButtons, YellowButtons, RedButtons, Launches

\* Every handler is.
LEMMA ScriptFacts == \A k \in Kinds : Orderly(Script[k], k)
<1>1. Kinds = {"auto", "manual", "pause", "close", "reconfigure", "acknowledge", "details",
               "command", "propose", "assess", "verdict", "status", "show"}
  BY DEF Kinds, Buttons, Keyboards, DigestButtons, GreenButtons, YellowButtons, RedButtons, Launches, Commands
<1>2. {"auto", "manual", "pause", "close", "reconfigure", "acknowledge"} \subseteq Buttons
  BY DEF Buttons, Keyboards, DigestButtons, GreenButtons, YellowButtons, RedButtons, Launches
<1>3. ASSUME NEW k \in Launches PROVE Orderly(Script[k], k)
  <2>1. Script[k] = <<"answer", "act", "edit">> /\ k \in Buttons
    BY <1>2 DEF Launches, Script, LaunchSteps
  <2> QED BY <2>1 DEF Orderly, Steps
<1>4. ASSUME NEW k \in {"pause", "close", "reconfigure"} PROVE Orderly(Script[k], k)
  <2>1. Script[k] = <<"act", "edit", "answer">> /\ k \in Buttons /\ k \notin Launches
    BY <1>2 DEF Launches, Script, ActionSteps
  <2> QED BY <2>1 DEF Orderly, Steps
<1>5. Orderly(Script["acknowledge"], "acknowledge")
  <2>1. Script["acknowledge"] = <<"strip", "answer">> BY DEF Script
  <2> QED BY <1>2, <2>1 DEF Orderly, Steps
<1>6. Orderly(Script["details"], "details")
  <2>1. Script["details"] = <<>> BY DEF Script
  <2> QED BY <2>1 DEF Orderly
<1>7. Orderly(Script["command"], "command")
  <2>1. Script["command"] = <<"act", "reply">> BY DEF Script
  <2> QED BY <2>1 DEF Orderly, Steps, Launches
<1>8. Orderly(Script["propose"], "propose")
  <2>1. Script["propose"] = <<"reply", "act", "reply">> BY DEF Script
  <2> QED BY <2>1 DEF Orderly, Steps, Launches
<1>9. Orderly(Script["assess"], "assess")
  <2>1. Script["assess"] = <<"reply", "assess", "reply">> BY DEF Script
  <2> QED BY <2>1 DEF Orderly, Steps
<1>10. Orderly(Script["verdict"], "verdict")
  <2>1. Script["verdict"] = <<"recall", "reply">> BY DEF Script
  <2> QED BY <2>1 DEF Orderly, Steps
<1>11. Orderly(Script["status"], "status")
  <2>1. Script["status"] = <<"read", "reply">> BY DEF Script
  <2> QED BY <2>1 DEF Orderly, Steps
<1>12. Orderly(Script["show"], "show")
  <2>1. Script["show"] = <<"reply">> BY DEF Script
  <2> QED BY <2>1 DEF Orderly, Steps
<1> QED BY <1>1, <1>3, <1>4, <1>5, <1>6, <1>7, <1>8, <1>9, <1>10, <1>11, <1>12 DEF Launches

\* Only a handler without awaits has a list of length 0.
LEMMA ScriptEmpty == \A k \in Kinds : Script[k] \in Seq(Steps)
<1>1. Kinds = {"auto", "manual", "pause", "close", "reconfigure", "acknowledge", "details",
               "command", "propose", "assess", "verdict", "status", "show"}
  BY DEF Kinds, Buttons, Keyboards, DigestButtons, GreenButtons, YellowButtons, RedButtons, Launches, Commands
<1>2. <<>> \in Seq(Steps) /\ \A a, b, c \in Steps : <<a>> \in Seq(Steps) /\ <<a, b>> \in Seq(Steps) /\ <<a, b, c>> \in Seq(Steps)
  OBVIOUS
<1>3. {"answer", "act", "edit", "strip", "reply", "assess", "recall", "read"} \subseteq Steps
  BY DEF Steps
<1>4. /\ Script["auto"] = LaunchSteps /\ Script["manual"] = LaunchSteps
      /\ Script["pause"] = ActionSteps /\ Script["close"] = ActionSteps
      /\ Script["reconfigure"] = ActionSteps
      /\ Script["acknowledge"] = <<"strip", "answer">> /\ Script["details"] = <<>>
      /\ Script["command"] = <<"act", "reply">> /\ Script["propose"] = <<"reply", "act", "reply">>
      /\ Script["assess"] = <<"reply", "assess", "reply">>
      /\ Script["verdict"] = <<"recall", "reply">> /\ Script["status"] = <<"read", "reply">>
      /\ Script["show"] = <<"reply">>
  BY DEF Script
<1>5. LaunchSteps \in Seq(Steps) /\ ActionSteps \in Seq(Steps)
  BY <1>2, <1>3 DEF LaunchSteps, ActionSteps
<1>6. /\ Script["acknowledge"] \in Seq(Steps) /\ Script["details"] \in Seq(Steps)
      /\ Script["command"] \in Seq(Steps) /\ Script["propose"] \in Seq(Steps)
      /\ Script["assess"] \in Seq(Steps)
  BY <1>2, <1>3, <1>4
<1>7. /\ Script["verdict"] \in Seq(Steps) /\ Script["status"] \in Seq(Steps)
      /\ Script["show"] \in Seq(Steps)
  BY <1>2, <1>3, <1>4
<1>8. SUFFICES ASSUME NEW k \in Kinds PROVE Script[k] \in Seq(Steps)
  OBVIOUS
<1> QED BY <1>1, <1>4, <1>5, <1>6, <1>7, Zenon

---------------------------------------------------------------------------
(* One update *)

\* The two shapes in which Reach changes an update.
LEMMA EndedTyped ==
    ASSUME NEW u \in Update, NEW n \in Places, NEW t \in Times
    PROVE  \A w : w = [u EXCEPT !.at = n, !.state = "ended", !.ended = t] => w \in Update
<1>1. "ended" \in States
  BY DEF States
<1> QED BY <1>1, Zenon DEF Update

LEMMA RunningTyped ==
    ASSUME NEW u \in Update, NEW n \in Places, NEW b \in Sometime
    PROVE  \A w : w = [u EXCEPT !.at = n, !.state = "running", !.launched = b] => w \in Update
<1>1. "running" \in States
  BY DEF States
<1> QED BY <1>1, Zenon DEF Update

\* A handler that runs on from the await it is suspended at, with what that
\* await did written down in v, stays fine.
LEMMA OnwardFine ==
    ASSUME now \in Times, NEW v \in Update, Placed(v), InTime(v), v.state = "running",
           LET s == Awaits(v)[v.at] IN
              /\ s \in {"edit", "strip", "reply"} => v.told
              /\ s = "act" => v.done
              /\ s = "answer" /\ v.at > 1 /\ Awaits(v)[v.at - 1] \in {"edit", "strip"}
                    => v.told
              /\ s = "answer" /\ v.kind \in Launches => now - v.born <= QueryLife
    PROVE  Onward(v) \in Update /\ Fine(Onward(v))
<1> DEFINE n == v.at + 1
           w == Onward(v)
<1>1. v.kind \in Kinds /\ v.at \in 1..Len(Awaits(v)) /\ Orderly(Awaits(v), v.kind)
  BY ScriptFacts DEF Placed, Update, Awaits
<1>2. /\ Len(Awaits(v)) \in 0..3 /\ n \in 2..4 /\ n \in Places /\ v.born \in Times
      /\ v.launched \in Sometime
  BY <1>1 DEF Orderly, Update, Places
<1>3. Times \subseteq Nat /\ QueryLife \in Nat
  BY ChatOK DEF Times
<1>4. CASE n > Len(Awaits(v))
  <2>1. w = [v EXCEPT !.at = n, !.state = "ended", !.ended = now]
    BY <1>4 DEF Onward, Reach
  <2>2. w \in Update
    BY <2>1, <1>2, EndedTyped, Zenon
  <2>3. /\ w.state = "ended" /\ w.kind = v.kind /\ w.card = v.card /\ w.own = v.own
        /\ w.launched = v.launched /\ w.born = v.born /\ w.told = v.told
    BY <2>1 DEF Update
  <2>4. v.at = Len(Awaits(v))
    BY <1>1, <1>2, <1>4
  <2>5. v.told
    BY <1>1, <2>4 DEF Orderly
  <2> QED BY <2>2, <2>3, <2>5 DEF Fine, Placed, Said, InTime, Explained
<1>5. CASE n <= Len(Awaits(v))
  <2> DEFINE b == IF Awaits(v)[n] = "act" /\ v.kind \in Launches THEN now ELSE v.launched
  <2>1. w = [v EXCEPT !.at = n, !.state = "running", !.launched = b]
    BY <1>2, <1>5 DEF Onward, Reach, Update
  <2>2. w \in Update
    <3>1. b \in Sometime
      BY <1>2 DEF Sometime
    <3> HIDE DEF b, n, w
    <3> QED BY <2>1, <1>2, <3>1, RunningTyped, Zenon
  <2>3. /\ w.state = "running" /\ w.kind = v.kind /\ w.card = v.card /\ w.own = v.own
        /\ w.launched = b /\ w.born = v.born /\ w.told = v.told /\ w.at = n /\ w.done = v.done
    BY <2>1 DEF Update
  <2>4. Awaits(w) = Awaits(v)
    BY <2>3 DEF Awaits
  <2>5. Placed(w)
    BY <2>3, <2>4, <1>1, <1>2, <1>5 DEF Placed
  <2>6. Said(w)
    <3>1. n - 1 = v.at
      BY <1>1, <1>2
    <3> QED BY <2>3, <2>4, <3>1 DEF Said
  <2>7. ASSUME Awaits(v)[n] = "act", v.kind \in Launches PROVE now <= v.born + QueryLife
    <3>1. Awaits(v)[v.at] = "answer"
      BY <2>7, <1>1, <1>2, <1>5 DEF Orderly
    <3>2. now - v.born <= QueryLife
      BY <3>1, <2>7
    <3>3. now \in Nat /\ v.born \in Nat /\ QueryLife \in Nat
      BY <1>2, <1>3
    <3> QED BY <3>2, <3>3
  <2>8. InTime(w)
    BY <2>3, <2>7 DEF InTime
  <2> QED BY <2>2, <2>3, <2>5, <2>6, <2>8 DEF Fine, Explained
<1> QED BY <1>2, <1>4, <1>5

\* So does one that raises into the middleware.
LEMMA RaisedFine ==
    ASSUME now \in Times, NEW u \in Update, Fine(u), u.state = "running"
    PROVE  Raised(u) \in Update /\ Fine(Raised(u))
<1>0. {"ended", "failing"} \subseteq States
  BY DEF States
<1>1. HasTarget(u)
  BY DEF Fine, Placed, HasTarget
<1>2. CASE TooOld(u)
  <2>1. Raised(u) = [u EXCEPT !.state = "ended", !.ended = now]
    BY <1>2 DEF Raised
  <2>2. now > u.date + MaxAge
    BY <1>2, ChatOK DEF TooOld, Update, Times
  <2>3. Raised(u) \in Update
    BY <2>1, <1>0, Zenon DEF Update
  <2> QED BY <2>1, <2>2, <2>3 DEF Update, Fine, Placed, Said, InTime, Explained, Awaits
<1>3. CASE ~TooOld(u)
  <2>1. Raised(u) = [u EXCEPT !.state = "failing"]
    BY <1>1, <1>3 DEF Raised
  <2>2. Raised(u) \in Update
    BY <2>1, <1>0, Zenon DEF Update
  <2> QED BY <2>1, <2>2 DEF Update, Fine, Placed, Said, InTime, Explained, Awaits
<1> QED BY <1>2, <1>3

\* And one that starts.
LEMMA StartedFine ==
    ASSUME now \in Times, NEW u \in Update, Fine(u), u.state = "queued"
    PROVE  Reach(u, 1) \in Update /\ Fine(Reach(u, 1))
<1> DEFINE w == Reach(u, 1)
<1>1. /\ u.kind \in Kinds /\ Orderly(Awaits(u), u.kind) /\ Len(Awaits(u)) \in 0..3
      /\ 1 \in Places /\ u.launched \in Sometime
  BY ScriptFacts DEF Fine, Placed, Update, Awaits, Orderly, Places
<1>2. CASE 1 > Len(Awaits(u))
  <2>1. w = [u EXCEPT !.at = 1, !.state = "ended", !.ended = now]
    BY <1>2 DEF Reach
  <2>2. Awaits(u) = <<>>
    BY <1>1, <1>2, ScriptEmpty DEF Awaits
  <2>3. w \in Update
    BY <2>1, <1>1, EndedTyped, Zenon
  <2>4. /\ w.state = "ended" /\ w.kind = u.kind /\ w.card = u.card /\ w.own = u.own
        /\ w.launched = u.launched /\ w.born = u.born
    BY <2>1 DEF Update
  <2> QED BY <2>2, <2>3, <2>4 DEF Awaits, Fine, Placed, Said, InTime, Explained
<1>3. CASE 1 <= Len(Awaits(u))
  <2> DEFINE b == IF Awaits(u)[1] = "act" /\ u.kind \in Launches THEN now ELSE u.launched
  <2>1. w = [u EXCEPT !.at = 1, !.state = "running", !.launched = b]
    BY <1>1, <1>3 DEF Reach, Update
  <2>2. w \in Update
    <3>1. b \in Sometime
      BY <1>1 DEF Sometime
    <3> HIDE DEF b, w
    <3> QED BY <2>1, <1>1, <3>1, RunningTyped, Zenon
  <2>3. /\ w.state = "running" /\ w.kind = u.kind /\ w.card = u.card /\ w.own = u.own
        /\ w.launched = b /\ w.born = u.born /\ w.at = 1
    BY <2>1 DEF Update
  <2>4. ~(u.kind \in Launches /\ Awaits(u)[1] = "act")
    BY <1>1, <1>3 DEF Orderly
  <2>5. Placed(w)
    BY <2>3, <1>1, <1>3 DEF Placed, Awaits, Fine
  <2>6. InTime(w)
    BY <2>3, <2>4 DEF InTime, Fine
  <2> QED BY <2>2, <2>3, <2>5, <2>6 DEF Fine, Said, Explained
<1> QED BY <1>1, <1>2, <1>3

---------------------------------------------------------------------------
(* All updates *)

\* What a step may do to an update without disturbing ButtonsUntilDone.
Follows(u, w) == u.card # None => w.card = u.card /\ w.kind = u.kind /\ (u.done => w.done)

LEMMA FreeTyped == Free \in Update
<1>1. "free" \in States /\ 0 \in Places /\ 0 \in Times /\ None \in Sometime
  BY ChatOK DEF States, Places, Times, Sometime
<1> QED BY <1>1, SMTT(60) DEF Free, Update

LEMMA InitInv == Init => Inv
<1> SUFFICES ASSUME Init PROVE Inv
  OBVIOUS
<1>1. Free \in Update
  BY FreeTyped
<1>2. Fine(Free)
  BY ChatOK DEF Free, Fine, Placed, Said, InTime, Explained, Kinds, Buttons
<1>3. TypeOK
  BY <1>1, ChatOK DEF Init, TypeOK, Times, Free
<1> QED BY <1>2, <1>3 DEF Init, Inv, Shown, ButtonsUntilDone, Free

\* A step of one update that leaves the cards alone.
LEMMA OneUpdate ==
    ASSUME Inv, NEW i \in Updates, NEW w \in Update, Fine(w), Become(i, w),
           Follows(updates[i], w), w.card # None => cards[w.card] # None,
           up \/ w.state \notin {"running", "failing"},
           UNCHANGED <<now, up, crashes, cards>>
    PROVE  Inv'
<1>1. /\ updates' \in [Updates -> Update]
      /\ \A j \in Updates : updates'[j] = IF j = i THEN w ELSE updates[j]
  BY DEF Inv, TypeOK, Become
<1>2. TypeOK'
  BY <1>1 DEF Inv, TypeOK
<1>3. \A j \in Updates : Fine(updates'[j])
  BY <1>1 DEF Inv
<1>4. Shown'
  BY <1>1 DEF Inv, Shown
<1>5. ButtonsUntilDone'
  <2> SUFFICES ASSUME NEW m \in Cards, cards[m] # None, cards[m].buttons = {}
               PROVE  \E j \in Updates : /\ updates'[j].card = m
                                         /\ updates'[j].done \/ updates'[j].kind = "acknowledge"
    BY DEF ButtonsUntilDone
  <2>1. PICK j \in Updates : /\ updates[j].card = m
                             /\ updates[j].done \/ updates[j].kind = "acknowledge"
    BY DEF Inv, ButtonsUntilDone
  <2>2. m # None
    BY ChatOK
  <2> QED BY <1>1, <2>1, <2>2 DEF Follows
<1> QED BY <1>2, <1>3, <1>4, <1>5 DEF Inv

---------------------------------------------------------------------------
(* The steps *)

LEMMA SendCardInv == ASSUME Inv, NEW m \in Cards, NEW kb \in Boards, SendCard(m, kb) PROVE Inv'
<1>1. kb \in SUBSET Buttons /\ kb # {}
  <2>1. kb \in Keyboards
    BY ChatOK
  <2>2. \A k \in Keyboards : k # {}
    BY DEF Keyboards, DigestButtons, Launches, GreenButtons, YellowButtons, RedButtons
  <2> QED BY <2>1, <2>2 DEF Buttons
<1>2. [at |-> now, buttons |-> kb] \in Card
  BY <1>1 DEF Card, Inv, TypeOK
<1>3. /\ cards' \in [Cards -> Card \cup {None}] /\ cards'[m] = [at |-> now, buttons |-> kb]
      /\ \A c \in Cards : c # m => cards'[c] = cards[c]
  BY <1>2 DEF SendCard, Inv, TypeOK
<1>4. TypeOK'
  BY <1>3 DEF SendCard, Inv, TypeOK
<1>5. Shown'
  <2>1. \A c \in Cards : cards[c] # None => cards'[c] = cards[c]
    BY <1>3 DEF SendCard
  <2>2. \A i \in Updates : updates[i].card \in Cards \cup {None}
    BY DEF Inv, TypeOK, Update
  <2> QED BY <2>1, <2>2 DEF Inv, Shown, SendCard
<1>6. ButtonsUntilDone'
  <2>1. cards'[m].buttons # {}
    BY <1>1, <1>3
  <2> QED BY <1>3, <2>1 DEF Inv, ButtonsUntilDone, SendCard
<1> QED BY <1>4, <1>5, <1>6 DEF Inv, SendCard

\* What a fresh update is made of.
LEMMA SentFine ==
    ASSUME now \in Times, NEW k \in Kinds, NEW c \in Cards \cup {None}, NEW o \in BOOLEAN,
           NEW d \in Times, c # None \/ o, k \in Buttons => c # None
    PROVE  /\ Sent(k, c, o, d) \in Update /\ Fine(Sent(k, c, o, d))
           /\ Sent(k, c, o, d).card = c /\ Sent(k, c, o, d).state = "queued"
<1> DEFINE w == Sent(k, c, o, d)
<1>1. Free \in Update /\ "queued" \in States
  BY FreeTyped DEF States
<1>2. w = [Free EXCEPT !.state = "queued", !.kind = k, !.card = c, !.own = o,
                       !.born = now, !.date = d]
  BY DEF Sent
<1>3. w \in Update
  <2>1. k \in Kinds \cup {None}
    OBVIOUS
  <2> HIDE DEF w
  <2> QED BY <1>1, <1>2, <2>1, Zenon DEF Update
<1>4. /\ w.state = "queued" /\ w.kind = k /\ w.card = c /\ w.own = o
      /\ w.launched = Free.launched /\ w.told = Free.told
  BY <1>1, <1>2 DEF Update
<1>5. Free.launched = None
  BY DEF Free
<1>6. Fine(w)
  <2> HIDE DEF w
  <2> QED BY <1>4, <1>5, ChatOK DEF Fine, Placed, Said, InTime, Explained
<1> QED BY <1>3, <1>4, <1>6

LEMMA PressInv ==
    ASSUME Inv, NEW i \in Updates, NEW m \in Cards, NEW b \in UNION Boards, Press(i, m, b)
    PROVE  Inv'
<1> DEFINE w == Sent(b, m, FALSE, cards[m].at)
<1>1. b \in Kinds /\ m # None
  BY ChatOK DEF Kinds, Buttons
<1>2. now \in Times /\ cards[m].at \in Times
  BY DEF Press, Inv, TypeOK, Card
<1>3. w \in Update /\ Fine(w) /\ w.card = m /\ w.state = "queued"
  <2>1. m \in Cards \cup {None} /\ FALSE \in BOOLEAN
    OBVIOUS
  <2> QED BY <1>1, <1>2, <2>1, SentFine
<1>4. Become(i, w) /\ updates[i].card = None /\ cards[m] # None
  <2>1. updates[i] = Free /\ Become(i, w) /\ cards[m] # None
    BY DEF Press
  <2>2. Free.card = None
    BY DEF Free
  <2> QED BY <2>1, <2>2
<1>5. UNCHANGED <<now, up, crashes, cards>>
  BY DEF Press
<1> HIDE DEF w
<1> QED BY <1>3, <1>4, <1>5, OneUpdate DEF Follows

LEMMA TypeInv == ASSUME Inv, NEW i \in Updates, NEW k \in Typed, Type(i, k) PROVE Inv'
<1> DEFINE w == Sent(k, None, TRUE, now)
<1>1. k \in Kinds /\ k \in Commands
  BY ChatOK DEF Kinds
<1>2. now \in Times
  BY DEF Inv, TypeOK
<1>3. k \notin Buttons
  BY <1>1, AllButtons DEF Commands
<1>4. w \in Update /\ Fine(w) /\ w.card = None /\ w.state = "queued"
  BY <1>1, <1>2, <1>3, SentFine
<1>5. Become(i, w) /\ updates[i].card = None
  <2>1. updates[i] = Free /\ Become(i, w)
    BY DEF Type
  <2>2. Free.card = None
    BY DEF Free
  <2> QED BY <2>1, <2>2
<1>6. UNCHANGED <<now, up, crashes, cards>>
  BY DEF Type
<1> HIDE DEF w
<1> QED BY <1>4, <1>5, <1>6, OneUpdate DEF Follows

\* What is known of a running handler.
LEMMA RunningFacts ==
    ASSUME Inv, NEW i \in Updates, updates[i].state = "running"
    PROVE  LET u == updates[i] IN
           /\ u \in Update /\ Fine(u) /\ Placed(u) /\ InTime(u) /\ now \in Times /\ up
           /\ u.kind \in Kinds /\ u.at \in 1..Len(Awaits(u)) /\ Orderly(Awaits(u), u.kind)
           /\ u.card # None => cards[u.card] # None
<1> DEFINE u == updates[i]
<1>1. u \in Update /\ Fine(u) /\ now \in Times /\ up
  BY DEF Inv, TypeOK
<1>2. u.kind \in Kinds /\ u.at \in 1..Len(Awaits(u))
  BY <1>1 DEF Fine, Placed, Update
<1>3. Orderly(Awaits(u), u.kind)
  BY <1>2, ScriptFacts DEF Awaits
<1> QED BY <1>1, <1>2, <1>3 DEF Fine, Inv, Shown, TypeOK

\* A step that notes v and runs on, without touching the cards.
LEMMA RunsOn ==
    ASSUME Inv, NEW i \in Updates, NEW v \in Update, updates[i].state = "running",
           v.state = "running", v.kind = updates[i].kind, v.card = updates[i].card,
           v.own = updates[i].own, v.at = updates[i].at, v.launched = updates[i].launched,
           v.born = updates[i].born, updates[i].done => v.done,
           updates[i].told => v.told,
           LET s == Awaits(v)[v.at] IN
              /\ s \in {"edit", "strip", "reply"} => v.told
              /\ s = "act" => v.done
              /\ s = "answer" /\ v.kind \in Launches => now - v.born <= QueryLife
    PROVE  /\ Onward(v) \in Update /\ Fine(Onward(v))
           /\ Follows(updates[i], Onward(v)) /\ Onward(v).card = updates[i].card
<1> DEFINE u == updates[i]
<1>1. /\ u \in Update /\ Fine(u) /\ Placed(u) /\ InTime(u) /\ now \in Times
      /\ u.kind \in Kinds /\ u.at \in 1..Len(Awaits(u))
  BY RunningFacts
<1>2. Awaits(v) = Awaits(u)
  BY DEF Awaits
<1>3. Placed(v) /\ InTime(v)
  BY <1>1, <1>2 DEF Placed, InTime
<1>4. Awaits(v)[v.at] = "answer" /\ v.at > 1 /\ Awaits(v)[v.at - 1] \in {"edit", "strip"}
         => v.told
  BY <1>1, <1>2 DEF Fine, Said
<1>5. Onward(v) \in Update /\ Fine(Onward(v))
  BY <1>1, <1>3, <1>4, OnwardFine
<1>6. Onward(v).card = v.card /\ Onward(v).kind = v.kind /\ Onward(v).done = v.done
  BY DEF Onward, Reach, Update
<1> QED BY <1>5, <1>6 DEF Follows

LEMMA FailInv == ASSUME Inv, NEW i \in Updates, Fail(i) PROVE Inv'
<1> DEFINE u == updates[i]
           w == Raised(u)
<1>1. u.state = "running" /\ Become(i, w) /\ UNCHANGED <<now, up, crashes, cards>>
  BY DEF Fail
<1>2. /\ u \in Update /\ Fine(u) /\ now \in Times /\ up
      /\ u.card # None => cards[u.card] # None
  BY <1>1, RunningFacts
<1>3. w \in Update /\ Fine(w)
  BY <1>1, <1>2, RaisedFine
<1>4. w.card = u.card /\ w.kind = u.kind /\ w.done = u.done
  BY <1>2 DEF Raised, Update
<1> HIDE DEF w
<1> QED BY <1>1, <1>2, <1>3, <1>4, OneUpdate DEF Follows

LEMMA QuietInv ==
    ASSUME Inv, NEW i \in Updates, updates[i].state = "running", NEW w \in Update, Fine(w),
           Follows(updates[i], w), w.card = updates[i].card, Become(i, w),
           UNCHANGED <<now, up, crashes, cards>>
    PROVE  Inv'
BY RunningFacts, OneUpdate

LEMMA AnswerInv == ASSUME Inv, NEW i \in Updates, Answer(i) PROVE Inv'
<1> DEFINE u == updates[i]
           v == IF u.kind = "auto" THEN [u EXCEPT !.told = TRUE] ELSE u
<1>1. /\ u.state = "running" /\ Awaits(u)[u.at] = "answer" /\ now - u.born <= QueryLife
      /\ Become(i, Onward(v)) /\ UNCHANGED <<now, up, crashes, cards>>
  BY DEF Answer, Suspended
<1>2. u \in Update
  BY <1>1, RunningFacts
<1>3. v \in Update
  <2>1. TRUE \in BOOLEAN
    OBVIOUS
  <2> QED BY <1>2, <2>1, Zenon DEF Update
<1>4. /\ v.state = "running" /\ v.kind = u.kind /\ v.card = u.card /\ v.own = u.own
      /\ v.at = u.at /\ v.launched = u.launched /\ v.born = u.born /\ v.done = u.done
      /\ u.told => v.told
  BY <1>1, <1>2 DEF Update
<1>5. Awaits(v) = Awaits(u)
  BY <1>4 DEF Awaits
<1> HIDE DEF v
<1>6. /\ Onward(v) \in Update /\ Fine(Onward(v))
      /\ Follows(u, Onward(v)) /\ Onward(v).card = u.card
  BY <1>1, <1>3, <1>4, <1>5, RunsOn
<1> QED BY <1>1, <1>2, <1>6, QuietInv

LEMMA ReturnInv == ASSUME Inv, NEW i \in Updates, Return(i) PROVE Inv'
<1> DEFINE u == updates[i]
           v == [u EXCEPT !.done = TRUE]
<1>1. /\ u.state = "running" /\ Awaits(u)[u.at] \in {"act", "read", "assess", "recall"}
      /\ Become(i, Onward(v)) /\ UNCHANGED <<now, up, crashes, cards>>
  BY DEF Return, Suspended
<1>2. u \in Update
  BY <1>1, RunningFacts
<1>3. v \in Update
  BY <1>2, Zenon DEF Update
<1>4. /\ v.state = "running" /\ v.kind = u.kind /\ v.card = u.card /\ v.own = u.own
      /\ v.at = u.at /\ v.launched = u.launched /\ v.born = u.born /\ v.done /\ v.told = u.told
  BY <1>1, <1>2 DEF Update
<1>5. Awaits(v) = Awaits(u)
  BY <1>4 DEF Awaits
<1> HIDE DEF v
<1>6. /\ Onward(v) \in Update /\ Fine(Onward(v))
      /\ Follows(u, Onward(v)) /\ Onward(v).card = u.card
  BY <1>1, <1>3, <1>4, <1>5, RunsOn
<1> QED BY <1>1, <1>2, <1>6, QuietInv

LEMMA ReplyInv == ASSUME Inv, NEW i \in Updates, Reply(i) PROVE Inv'
<1> DEFINE u == updates[i]
           v == [u EXCEPT !.told = TRUE]
<1>1. /\ u.state = "running" /\ Awaits(u)[u.at] = "reply"
      /\ Become(i, Onward(v)) /\ UNCHANGED <<now, up, crashes, cards>>
  BY DEF Reply, Suspended
<1>2. u \in Update
  BY <1>1, RunningFacts
<1>3. v \in Update
  <2>1. TRUE \in BOOLEAN
    OBVIOUS
  <2> QED BY <1>2, <2>1, Zenon DEF Update
<1>4. /\ v.state = "running" /\ v.kind = u.kind /\ v.card = u.card /\ v.own = u.own
      /\ v.at = u.at /\ v.launched = u.launched /\ v.born = u.born /\ v.done = u.done
      /\ v.told
  BY <1>1, <1>2 DEF Update
<1>5. Awaits(v) = Awaits(u)
  BY <1>4 DEF Awaits
<1> HIDE DEF v
<1>6. /\ Onward(v) \in Update /\ Fine(Onward(v))
      /\ Follows(u, Onward(v)) /\ Onward(v).card = u.card
  BY <1>1, <1>3, <1>4, <1>5, RunsOn
<1> QED BY <1>1, <1>2, <1>6, QuietInv

LEMMA ErrorReplyInv == ASSUME Inv, NEW i \in Updates, ErrorReply(i) PROVE Inv'
<1> DEFINE u == updates[i]
<1>1. u.state = "failing" /\ UNCHANGED <<now, up, crashes, cards>>
  BY DEF ErrorReply
<1>2. /\ u \in Update /\ Fine(u) /\ now \in Times /\ up
      /\ u.card # None => cards[u.card] # None
  BY <1>1 DEF Inv, TypeOK, Shown
<1>3. "ended" \in States
  BY DEF States
<1>4. ASSUME NEW w \in Update, Become(i, w), w.state = "ended", w.kind = u.kind,
             w.card = u.card, w.own = u.own, w.launched = u.launched, w.born = u.born,
             w.done = u.done, w.told \/ w.undelivered
      PROVE  Inv'
  <2>1. Fine(w)
    BY <1>1, <1>2, <1>4 DEF Fine, Placed, Said, InTime, Explained
  <2> QED BY <1>1, <1>2, <1>4, <2>1, OneUpdate DEF Follows
<1>5. CASE Become(i, [u EXCEPT !.state = "ended", !.ended = now, !.told = TRUE])
  <2> DEFINE w == [u EXCEPT !.state = "ended", !.ended = now, !.told = TRUE]
  <2>1. w \in Update
    BY <1>2, <1>3, Zenon DEF Update
  <2>2. /\ w.state = "ended" /\ w.kind = u.kind /\ w.card = u.card /\ w.own = u.own
        /\ w.launched = u.launched /\ w.born = u.born /\ w.done = u.done /\ w.told
    BY <1>2 DEF Update
  <2>3. Become(i, w)
    BY <1>5
  <2> HIDE DEF w
  <2> QED BY <2>1, <2>2, <2>3, <1>4
<1>6. CASE Become(i, [u EXCEPT !.state = "ended", !.ended = now, !.undelivered = TRUE])
  <2> DEFINE w == [u EXCEPT !.state = "ended", !.ended = now, !.undelivered = TRUE]
  <2>1. w \in Update
    BY <1>2, <1>3, Zenon DEF Update
  <2>2. /\ w.state = "ended" /\ w.kind = u.kind /\ w.card = u.card /\ w.own = u.own
        /\ w.launched = u.launched /\ w.born = u.born /\ w.done = u.done /\ w.undelivered
    BY <1>2 DEF Update
  <2>3. Become(i, w)
    BY <1>6
  <2> HIDE DEF w
  <2> QED BY <2>1, <2>2, <2>3, <1>4
<1> QED BY <1>5, <1>6 DEF ErrorReply

\* The only step that takes the buttons off a card: its handler has called the
\* service, or acknowledges.
LEMMA EditInv == ASSUME Inv, NEW i \in Updates, Edit(i) PROVE Inv'
<1> DEFINE u == updates[i]
           v == [u EXCEPT !.told = TRUE]
           w == Onward(v)
<1>1. /\ u.state = "running" /\ Awaits(u)[u.at] \in {"edit", "strip"}
      /\ cards' = [cards EXCEPT ![u.card].buttons = {}]
      /\ Become(i, w) /\ UNCHANGED <<now, up, crashes>>
  BY DEF Edit, Suspended
<1>2. /\ u \in Update /\ Fine(u) /\ Placed(u) /\ now \in Times /\ up /\ u.kind \in Kinds
      /\ u.at \in 1..Len(Awaits(u)) /\ Orderly(Awaits(u), u.kind)
      /\ u.card # None => cards[u.card] # None
  BY <1>1, RunningFacts
<1>3. v \in Update
  <2>1. TRUE \in BOOLEAN
    OBVIOUS
  <2> QED BY <1>2, <2>1, Zenon DEF Update
<1>4. /\ v.state = "running" /\ v.kind = u.kind /\ v.card = u.card /\ v.own = u.own
      /\ v.at = u.at /\ v.launched = u.launched /\ v.born = u.born /\ v.done = u.done
      /\ v.told
  BY <1>1, <1>2 DEF Update
<1>5. Awaits(v) = Awaits(u)
  BY <1>4 DEF Awaits
<1>6. u.kind \in Buttons /\ u.card \in Cards /\ cards[u.card] \in Card /\ cards[u.card] # None
  <2>1. u.kind \in Buttons
    BY <1>1, <1>2 DEF Orderly
  <2>2. u.card \in Cards
    BY <1>2, <2>1 DEF Placed, Update
  <2> QED BY <1>2, <2>1, <2>2, ChatOK DEF Inv, TypeOK
<1>7. u.done \/ u.kind = "acknowledge"
  <2>1. CASE Awaits(u)[u.at] = "edit"
    BY <1>1, <1>2, <2>1 DEF Orderly, Fine, Said
  <2>2. CASE Awaits(u)[u.at] = "strip"
    BY <1>2, <2>2 DEF Orderly
  <2> QED BY <1>1, <2>1, <2>2
<1> HIDE DEF v
<1>8. w \in Update /\ Fine(w) /\ Follows(u, w) /\ w.card = u.card
  BY <1>1, <1>3, <1>4, <1>5, RunsOn
<1> HIDE DEF w
<1>9. /\ updates' \in [Updates -> Update]
      /\ \A j \in Updates : updates'[j] = IF j = i THEN w ELSE updates[j]
  BY <1>1, <1>8 DEF Inv, TypeOK, Become
<1>10. /\ cards' \in [Cards -> Card \cup {None}]
       /\ \A m \in Cards : cards'[m] = None <=> cards[m] = None
       /\ \A m \in Cards : m # u.card => cards'[m] = cards[m]
  <2>1. [cards[u.card] EXCEPT !.buttons = {}] \in Card
    BY <1>6 DEF Card
  <2>2. [cards[u.card] EXCEPT !.buttons = {}] # None
    BY <2>1, ChatOK
  <2> QED BY <1>1, <1>6, <2>1, <2>2 DEF Inv, TypeOK
<1>11. TypeOK'
  BY <1>1, <1>2, <1>9, <1>10 DEF Inv, TypeOK
<1>12. \A j \in Updates : Fine(updates'[j])
  BY <1>8, <1>9 DEF Inv
<1>13. Shown'
  <2>1. \A j \in Updates : updates'[j].card = updates[j].card
    BY <1>8, <1>9
  <2>2. \A j \in Updates : updates[j].card \in Cards \cup {None}
    BY DEF Inv, TypeOK, Update
  <2> QED BY <1>10, <2>1, <2>2 DEF Inv, Shown
<1>14. ButtonsUntilDone'
  <2> SUFFICES ASSUME NEW m \in Cards, cards'[m] # None, cards'[m].buttons = {}
               PROVE  \E j \in Updates : /\ updates'[j].card = m
                                         /\ updates'[j].done \/ updates'[j].kind = "acknowledge"
    BY DEF ButtonsUntilDone
  <2>1. CASE m = u.card
    BY <1>6, <1>7, <1>8, <1>9, <2>1, ChatOK DEF Follows
  <2>2. CASE m # u.card
    <3>1. PICK j \in Updates : /\ updates[j].card = m
                               /\ updates[j].done \/ updates[j].kind = "acknowledge"
      BY <1>10, <2>2 DEF Inv, ButtonsUntilDone
    <3> QED BY <1>9, <2>2, <3>1
  <2> QED BY <2>1, <2>2
<1> QED BY <1>11, <1>12, <1>13, <1>14 DEF Inv

LEMMA PollInv == ASSUME Inv, Poll PROVE Inv'
<1> DEFINE W(u) == IF u.state = "queued" THEN Reach(u, 1)
                   ELSE IF Taken(u) THEN [u EXCEPT !.confirmed = TRUE] ELSE u
<1>1. updates' = [j \in Updates |-> W(updates[j])] /\ UNCHANGED <<now, up, crashes, cards>>
  BY DEF Poll
<1>2. ASSUME NEW u \in Update, Fine(u)
      PROVE  W(u) \in Update /\ Fine(W(u)) /\ W(u).card = u.card /\ W(u).kind = u.kind
             /\ W(u).done = u.done
  <2>1. CASE u.state = "queued"
    <3>1. Reach(u, 1) \in Update /\ Fine(Reach(u, 1))
      BY <1>2, <2>1, StartedFine DEF Inv, TypeOK
    <3>2. Reach(u, 1).card = u.card /\ Reach(u, 1).kind = u.kind /\ Reach(u, 1).done = u.done
      BY DEF Reach, Update
    <3> QED BY <2>1, <3>1, <3>2
  <2>2. CASE u.state # "queued" /\ Taken(u)
    <3> DEFINE w == [u EXCEPT !.confirmed = TRUE]
    <3>1. w \in Update
      BY Zenon DEF Update
    <3>2. /\ w.state = u.state /\ w.kind = u.kind /\ w.card = u.card /\ w.own = u.own
          /\ w.launched = u.launched /\ w.born = u.born /\ w.done = u.done /\ w.told = u.told
          /\ w.at = u.at /\ w.undelivered = u.undelivered /\ w.ended = u.ended /\ w.date = u.date
      BY DEF Update
    <3>3. Awaits(w) = Awaits(u)
      BY <3>2 DEF Awaits
    <3>4. W(u) = w
      BY <2>2
    <3> HIDE DEF w, W
    <3>5. Fine(w)
      BY <1>2, <3>2, <3>3 DEF Fine, Placed, Said, InTime, Explained
    <3> QED BY <3>1, <3>2, <3>4, <3>5
  <2>3. CASE u.state # "queued" /\ ~Taken(u)
    BY <1>2, <2>3
  <2> QED BY <2>1, <2>2, <2>3
<1> HIDE DEF W
<1>3. \A j \in Updates : updates[j] \in Update /\ Fine(updates[j])
  BY DEF Inv, TypeOK
<1>4. /\ updates' \in [Updates -> Update]
      /\ \A j \in Updates : /\ Fine(updates'[j]) /\ updates'[j].card = updates[j].card
                            /\ updates'[j].kind = updates[j].kind
                            /\ updates'[j].done = updates[j].done
  BY <1>1, <1>2, <1>3
<1>5. up
  BY DEF Poll
<1>6. TypeOK'
  BY <1>1, <1>4, <1>5 DEF Inv, TypeOK
<1> QED BY <1>1, <1>4, <1>6 DEF Inv, Shown, ButtonsUntilDone

LEMMA CrashInv == ASSUME Inv, Crash PROVE Inv'
<1>1. /\ updates' = [j \in Updates |-> Interrupted(updates[j])]
      /\ UNCHANGED <<now, cards>> /\ up' = FALSE /\ crashes' \in 0..MaxCrashes
  BY ChatOK DEF Crash, Inv, TypeOK
<1>2. ASSUME NEW u \in Update, Fine(u)
      PROVE  LET w == Interrupted(u) IN
             /\ w \in Update /\ Fine(w) /\ w.card = u.card /\ w.kind = u.kind /\ w.done = u.done
             /\ w.state \notin {"running", "failing"}
  <2>1. {"queued", "lost"} \subseteq States /\ 0 \in Places
    BY DEF States, Places
  <2>2. ASSUME NEW w \in Update, w.state \in {"queued", "lost"}, w.kind = u.kind,
               w.card = u.card, w.own = u.own, w.launched = u.launched, w.born = u.born,
               u.state \in {"running", "failing", "ended"}
        PROVE  Fine(w)
    BY <1>2, <2>2 DEF Fine, Placed, Said, InTime, Explained
  <2>3. CASE Taken(u) /\ ~u.confirmed
    <3> DEFINE w == [u EXCEPT !.state = "queued", !.at = 0]
    <3>1. w \in Update
      BY <2>1, Zenon DEF Update
    <3>2. /\ w.state = "queued" /\ w.kind = u.kind /\ w.card = u.card /\ w.own = u.own
          /\ w.launched = u.launched /\ w.born = u.born /\ w.done = u.done
      BY DEF Update
    <3>3. Interrupted(u) = w
      BY <2>3 DEF Interrupted
    <3> HIDE DEF w
    <3> QED BY <2>2, <2>3, <3>1, <3>2, <3>3 DEF Taken
  <2>4. CASE ~(Taken(u) /\ ~u.confirmed) /\ u.state \in {"running", "failing"}
    <3> DEFINE w == [u EXCEPT !.state = "lost"]
    <3>1. w \in Update
      BY <2>1, Zenon DEF Update
    <3>2. /\ w.state = "lost" /\ w.kind = u.kind /\ w.card = u.card /\ w.own = u.own
          /\ w.launched = u.launched /\ w.born = u.born /\ w.done = u.done
      BY DEF Update
    <3>3. Interrupted(u) = w
      BY <2>4 DEF Interrupted
    <3> HIDE DEF w
    <3> QED BY <2>2, <2>4, <3>1, <3>2, <3>3
  <2>5. CASE ~(Taken(u) /\ ~u.confirmed) /\ u.state \notin {"running", "failing"}
    BY <1>2, <2>5 DEF Interrupted
  <2> QED BY <2>3, <2>4, <2>5
<1>3. \A j \in Updates : updates[j] \in Update /\ Fine(updates[j])
  BY DEF Inv, TypeOK
<1>4. /\ updates' \in [Updates -> Update]
      /\ \A j \in Updates : /\ Fine(updates'[j]) /\ updates'[j].card = updates[j].card
                            /\ updates'[j].kind = updates[j].kind
                            /\ updates'[j].done = updates[j].done
                            /\ updates'[j].state \notin {"running", "failing"}
  BY <1>1, <1>2, <1>3
<1>5. TypeOK'
  BY <1>1, <1>4 DEF Inv, TypeOK
<1> QED BY <1>1, <1>4, <1>5 DEF Inv, Shown, ButtonsUntilDone

---------------------------------------------------------------------------
(* The theorems *)

LEMMA StepInv == Inv /\ [Next]_vars => Inv'
<1> SUFFICES ASSUME Inv, [Next]_vars PROVE Inv'
  OBVIOUS
<1>1. ASSUME NEW m \in Cards, NEW kb \in Boards, SendCard(m, kb) PROVE Inv'
  BY <1>1, SendCardInv
<1>2. ASSUME NEW i \in Updates, NEW m \in Cards, NEW b \in UNION Boards, Press(i, m, b) PROVE Inv'
  BY <1>2, PressInv
<1>3. ASSUME NEW i \in Updates, NEW k \in Typed, Type(i, k) PROVE Inv'
  BY <1>3, TypeInv
<1>4. CASE Poll
  BY <1>4, PollInv
<1>5. ASSUME NEW i \in Updates, Run(i) PROVE Inv'
  BY <1>5, FailInv, AnswerInv, ReturnInv, EditInv, ReplyInv, ErrorReplyInv DEF Run
<1>6. CASE Crash
  BY <1>6, CrashInv
<1>7. CASE Start
  BY <1>7 DEF Start, Inv, TypeOK, Shown, ButtonsUntilDone
<1>8. CASE Tick
  <2>1. now' \in Times
    BY <1>8, ChatOK DEF Tick, Inv, TypeOK, Times
  <2> QED BY <1>8, <2>1 DEF Tick, Inv, TypeOK, Shown, ButtonsUntilDone
<1>9. CASE UNCHANGED vars
  BY <1>9 DEF vars, Inv, TypeOK, Shown, ButtonsUntilDone
<1> QED BY <1>1, <1>2, <1>3, <1>4, <1>5, <1>6, <1>7, <1>8, <1>9 DEF Next

\* Everything below holds because this does.
THEOREM Inductive == Spec => []Inv
BY InitInv, StepInv, PTL DEF Spec

\* Chat keeps its types, and no handler runs while the process is down, for any
\* number of updates, cards and restarts.
THEOREM TypeCorrect == Spec => []TypeOK
<1>1. Inv => TypeOK
  BY DEF Inv
<1> QED BY <1>1, Inductive, PTL

\* No press launches a grid once Telegram no longer takes its answer, however
\* often it is delivered and however long the process was down.
THEOREM LaunchWindow == Spec => []LaunchesInTime
<1>1. Inv => LaunchesInTime
  BY DEF Inv, Fine, InTime, LaunchesInTime
<1> QED BY <1>1, Inductive, PTL

\* A handler that ends in silence had nothing to say, failed on an old message,
\* or its error reply was lost.
THEOREM Silence == Spec => []SilenceExplained
<1>1. Inv => SilenceExplained
  BY DEF Inv, Fine, Explained, SilenceExplained
<1> QED BY <1>1, Inductive, PTL

\* The buttons of a card stay until a service behind one of them returned.
THEOREM Pressable == Spec => []ButtonsUntilDone
<1>1. Inv => ButtonsUntilDone
  BY DEF Inv
<1> QED BY <1>1, Inductive, PTL

===========================================================================
