--------------------------- MODULE Crossing_proofs ---------------------------
(***************************************************************************)
(* What holds on the road for every number of vehicles and of batches, as  *)
(* long as the discovery after a CANCEL finds everybody in line.           *)
(***************************************************************************)
EXTENDS Crossing, WellFoundedInduction, TLAPS

Decision == [kind : {"ORDER", "CANCEL"}, epoch : {0, 1}, batch : [Vehicle -> -1 .. Batches - 1]]

\* ORDER(0), CANCEL(0), ORDER(1); the last has a slot for everybody in line.
DecidedSound ==
    /\ decided \in Seq(Decision)
    /\ Len(decided) >= 1 =>
          /\ decided[1].kind = "ORDER" /\ decided[1].epoch = 0 /\ Gapless(decided[1].batch)
          /\ \A v \in Vehicle : BatchOf(0, v) >= 0
    /\ Len(decided) >= 2 => decided[2].kind = "CANCEL"
    /\ Len(decided) >= 3 =>
          /\ decided[3].kind = "ORDER" /\ decided[3].epoch = 1 /\ Gapless(decided[3].batch)
          /\ \A v \in Vehicle : place[v] = "line" => BatchOf(1, v) >= 0

\* What a vehicle has taken, and how far it is.
AppSound(s, v) ==
    /\ s.handled <= s.queue /\ s.queue <= Len(decided)
    /\ place[v] # "line" => s.released
    /\ 0 \in s.tombstones <=> s.handled >= 2
    /\ s.last >= 0 => s.handled >= 1
    /\ s.consensus_pending => s.handled = 1
    /\ s.cancel_pending => s.handled >= 2
    /\ s.slot.epoch = 0 => s.handled >= 1
    /\ s.slot.epoch = 1 => s.handled = 3
    /\ s.slot # NoSlot => s.slot.batch = BatchOf(s.slot.epoch, v)
    /\ s.released /\ s.handled <= 1 => s.order_applied

InLineSound(s, v) ==
    place[v] = "line" =>
        /\ s.handled = 1 => s.order_applied
        /\ s.handled = 2 => s.cancel_pending /\ ~s.order_applied
        /\ s.handled = 3 => s.order_applied /\ s.slot.epoch = 1
        /\ s.cancel_pending => ~s.released

\* Who has a slot in ORDER(1) waits for it in line.
MemberSound(s, v) ==
    Len(decided) = 3 /\ BatchOf(1, v) >= 0 =>
        \/ s.handled = 3 /\ s.slot.epoch = 1
        \/ s.handled = 2 /\ place[v] = "line" /\ s.cancel_pending /\ ~s.released

\* Who was released in time went after the batch before its own.
ReleasedSound(s, v) ==
    s.released /\ s.slot # NoSlot /\ s.slot.batch > 0 /\ ~s.overdue =>
        \A w \in Vehicle : BatchOf(s.slot.epoch, w) = s.slot.batch - 1 =>
            place[w] = "clear" /\ app[w].slot.epoch \in {-1, s.slot.epoch}

Sound(s, v) == AppSound(s, v) /\ InLineSound(s, v) /\ MemberSound(s, v) /\ ReleasedSound(s, v)

CrossInv == TypeOK /\ DecidedSound /\ \A v \in Vehicle : Sound(app[v], v)

\* A start that no cancellation and no missing slot speaks against.
MayStart(s) ==
    s.released => /\ ~CancelActive(s)
                  /\ s.slot.epoch >= 0 /\ s.slot.epoch \notin s.tombstones

-----------------------------------------------------------------------------
(* The shape of the state *)

LEMMA SlotType ==
    ASSUME NEW x \in Slot \cup {NoSlot}
    PROVE  /\ x.epoch \in {-1, 0, 1} /\ x.batch \in -1 .. Batches - 1
           /\ x = NoSlot <=> x.epoch = -1
           /\ x # NoSlot => x.batch \in 0 .. Batches - 1
<1>1. Batches \in Nat \ {0}
  BY CrossingAssumption
<1> QED
  BY <1>1 DEF Slot, NoSlot

LEMMA BatchType ==
    ASSUME DecidedSound, NEW e \in {0, 1}, NEW v \in Vehicle,
           Len(decided) >= IF e = 0 THEN 1 ELSE 3
    PROVE  BatchOf(e, v) \in -1 .. Batches - 1
<1>1. decided \in Seq(Decision) /\ Len(decided) \in Nat
  BY DEF DecidedSound
<1>2. (IF e = 0 THEN 1 ELSE 3) \in 1 .. Len(decided)
  BY <1>1
<1>3. decided[IF e = 0 THEN 1 ELSE 3] \in Decision
  BY <1>1, <1>2
<1> QED
  BY <1>3 DEF BatchOf, Decision

LEMMA CrossInit == Init => CrossInv
<1> SUFFICES ASSUME Init PROVE CrossInv
  OBVIOUS
<1>1. Fresh \in App /\ Fresh.slot = NoSlot
  BY CrossingAssumption DEF Fresh, App, Dwell
<1>2. TypeOK
  BY <1>1, CrossingAssumption DEF Init, TypeOK, Fresh
<1>3. DecidedSound
  BY DEF Init, DecidedSound
<1>4. ASSUME NEW v \in Vehicle PROVE Sound(app[v], v)
  <2>1. app[v] = Fresh /\ place[v] = "line" /\ Len(decided) = 0
    BY DEF Init
  <2>2. AppSound(app[v], v) /\ InLineSound(app[v], v)
    BY <2>1 DEF Fresh, AppSound, InLineSound, NoSlot
  <2>3. MemberSound(app[v], v) /\ ReleasedSound(app[v], v)
    BY <2>1 DEF Fresh, MemberSound, ReleasedSound
  <2> QED
    BY <2>2, <2>3 DEF Sound
<1> QED
  BY <1>2, <1>3, <1>4 DEF CrossInv

LEMMA AppFields ==
    ASSUME NEW s \in App
    PROVE  /\ s.handled \in 0 .. 3 /\ s.queue \in 0 .. 3
           /\ s.epoch \in {0, 1} /\ s.last \in {-1, 0, 1}
           /\ s.tombstones \in SUBSET {0} /\ s.timers \in SUBSET Timer
           /\ s.slot \in Slot \cup {NoSlot}
           /\ s.released \in BOOLEAN /\ s.order_applied \in BOOLEAN /\ s.overdue \in BOOLEAN
           /\ s.cancel_pending \in BOOLEAN /\ s.consensus_pending \in BOOLEAN
           /\ s.poll \in BOOLEAN /\ s.crash \in Dwell /\ s.clear \in Dwell
BY DEF App

\* What the helpers leave alone.
Kept(t, s) ==
    /\ t.queue = s.queue /\ t.handled = s.handled /\ t.slot = s.slot /\ t.last = s.last
    /\ t.tombstones = s.tombstones

LEMMA RecallFields ==
    ASSUME NEW s \in App
    PROVE  LET t == Recall(s)
           IN  /\ t \in App /\ Kept(t, s) /\ t.released = FALSE /\ t.overdue = FALSE
               /\ t.order_applied = s.order_applied /\ t.cancel_pending = s.cancel_pending
               /\ t.consensus_pending = s.consensus_pending
BY DEF Recall, App, Kept

LEMMA BeginFields ==
    ASSUME NEW s \in App, NEW v \in Vehicle, ~s.cancel_pending, enableRollback \in BOOLEAN
    PROVE  LET t == BeginDiscovery(s, v)
           IN  /\ t \in App /\ Kept(t, s) /\ t.cancel_pending /\ ~t.order_applied
               /\ t.consensus_pending = s.consensus_pending
               /\ t.released = (s.released /\ place[v] # "line")
               /\ t.overdue = (s.overdue /\ place[v] # "line")
<1> DEFINE r == IF isRecallable(v) THEN Recall(s) ELSE s
           p == r.poll \/ enableRollback
           t == [r EXCEPT !.cancel_pending = TRUE, !.epoch = 1, !.order_applied = FALSE,
                          !.poll = p]
<1>1. /\ r \in App /\ Kept(r, s) /\ r.consensus_pending = s.consensus_pending
      /\ r.released = (s.released /\ place[v] # "line")
      /\ r.overdue = (s.overdue /\ place[v] # "line")
  <2>1. s.released \in BOOLEAN /\ s.overdue \in BOOLEAN
    BY AppFields
  <2>2. CASE place[v] = "line"
    <3>1. r = Recall(s)
      BY <2>2 DEF isRecallable
    <3> QED
      BY <2>2, <3>1, RecallFields
  <2>3. CASE place[v] # "line"
    <3>1. r = s
      BY <2>3 DEF isRecallable
    <3> QED
      BY <2>1, <2>3, <3>1 DEF Kept
  <2> QED
    BY <2>2, <2>3
<1>2. BeginDiscovery(s, v) = t
  BY DEF BeginDiscovery
<1> HIDE DEF r
<1>3. p \in BOOLEAN
  BY <1>1, AppFields
<1> HIDE DEF p
<1>4. /\ t \in App /\ Kept(t, r) /\ t.cancel_pending /\ ~t.order_applied
      /\ t.consensus_pending = r.consensus_pending /\ t.released = r.released
      /\ t.overdue = r.overdue
  <2>1. t \in App
    BY ZenonT(60), <1>1, <1>3 DEF App
  <2>2. Kept(t, r)
    BY SMTT(30), <1>1 DEF App, Kept
  <2>3. /\ t.cancel_pending /\ ~t.order_applied
        /\ t.consensus_pending = r.consensus_pending /\ t.released = r.released
        /\ t.overdue = r.overdue
    BY SMTT(30), <1>1 DEF App
  <2> QED
    BY <2>1, <2>2, <2>3
<1> QED
  BY <1>1, <1>2, <1>4 DEF Kept

\* A vehicle that ORDER(e) has a slot for.
LEMMA MemberFields ==
    ASSUME NEW s \in App, NEW v \in Vehicle, NEW d \in Decision,
           d.batch[v] \in 0 .. Batches - 1,
           place[v] # "clear", d.epoch \notin s.tombstones,
           ~(s.order_applied /\ d.epoch <= s.epoch)
    PROVE  LET t == ApplyOrder(s, v, d)
           IN  /\ t \in App /\ t.queue = s.queue /\ t.handled = s.handled
               /\ t.tombstones = s.tombstones /\ t.last = d.epoch
               /\ t.slot = [epoch |-> d.epoch, batch |-> d.batch[v]]
               /\ t.order_applied /\ t.consensus_pending = s.consensus_pending
               /\ t.cancel_pending = (s.cancel_pending /\ d.epoch # 1)
               /\ t.released = (s.released \/ d.batch[v] = 0)
<1> DEFINE back == IF s.cancel_pending /\ d.epoch = 1
                   THEN [s EXCEPT !.cancel_pending = FALSE] ELSE s
           x == [epoch |-> d.epoch, batch |-> d.batch[v]]
           mine == [[back EXCEPT !.last = d.epoch, !.timers = {}]
                       EXCEPT !.order_applied = TRUE, !.overdue = FALSE, !.slot = x]
<1>0. d.epoch \in {0, 1} /\ x \in Slot
  BY DEF Decision, Slot
<1>1. /\ back \in App /\ back.queue = s.queue /\ back.handled = s.handled
      /\ back.tombstones = s.tombstones /\ back.consensus_pending = s.consensus_pending
      /\ back.cancel_pending = (s.cancel_pending /\ d.epoch # 1) /\ back.released = s.released
  <2>1. CASE s.cancel_pending /\ d.epoch = 1
    BY <2>1 DEF App
  <2>2. CASE ~(s.cancel_pending /\ d.epoch = 1)
    BY <2>2, AppFields
  <2> QED
    BY <2>1, <2>2
<1>2. ApplyOrder(s, v, d) = IF d.batch[v] = 0 THEN resumeVehicle(mine)
                            ELSE [mine EXCEPT !.poll = TRUE]
  BY CrossingAssumption DEF ApplyOrder
<1> HIDE DEF back
<1> HIDE DEF x
<1>3. /\ mine \in App /\ mine.queue = s.queue /\ mine.handled = s.handled
      /\ mine.tombstones = s.tombstones /\ mine.consensus_pending = s.consensus_pending
      /\ mine.cancel_pending = back.cancel_pending /\ mine.released = s.released
      /\ mine.last = d.epoch /\ mine.slot = x /\ mine.order_applied
  BY <1>0, <1>1 DEF App
<1> HIDE DEF mine
<1>4. CASE d.batch[v] = 0
  <2> DEFINE t == [mine EXCEPT !.released = TRUE]
  <2>1. ApplyOrder(s, v, d) = t
    BY <1>2, <1>4 DEF resumeVehicle
  <2>2. /\ t \in App /\ t.queue = s.queue /\ t.handled = s.handled
        /\ t.tombstones = s.tombstones /\ t.consensus_pending = s.consensus_pending
        /\ t.cancel_pending = back.cancel_pending /\ t.released
        /\ t.last = d.epoch /\ t.slot = x /\ t.order_applied
    BY <1>3 DEF App
  <2> QED
    BY <1>1, <1>4, <2>1, <2>2, AppFields DEF x
<1>5. CASE d.batch[v] # 0
  <2> DEFINE t == [mine EXCEPT !.poll = TRUE]
  <2>1. ApplyOrder(s, v, d) = t
    BY <1>2, <1>5
  <2>2. /\ t \in App /\ t.queue = s.queue /\ t.handled = s.handled
        /\ t.tombstones = s.tombstones /\ t.consensus_pending = s.consensus_pending
        /\ t.cancel_pending = back.cancel_pending /\ t.released = s.released
        /\ t.last = d.epoch /\ t.slot = x /\ t.order_applied
    BY <1>3 DEF App
  <2> QED
    BY <1>1, <1>5, <2>1, <2>2, AppFields DEF x
<1> QED
  BY <1>4, <1>5

\* A vehicle that ORDER(1) leaves out.
LEMMA ExcludedFields ==
    ASSUME NEW s \in App, NEW v \in Vehicle, NEW d \in Decision, d.batch[v] < 0
    PROVE  LET t == ApplyOrder(s, v, d)
           IN  /\ t \in App /\ t.queue = s.queue /\ t.handled = s.handled
               /\ t.tombstones = s.tombstones /\ t.slot = s.slot
               /\ t.released = s.released /\ t.overdue = s.overdue
               /\ t.consensus_pending = s.consensus_pending
<1> DEFINE back == IF s.cancel_pending /\ d.epoch = 1
                   THEN [s EXCEPT !.cancel_pending = FALSE] ELSE s
           o == back.order_applied \/ d.epoch = s.epoch
           t == [[back EXCEPT !.last = d.epoch, !.timers = {}] EXCEPT !.order_applied = o]
<1>0. d.epoch \in {0, 1}
  BY DEF Decision
<1>1. /\ back \in App /\ back.queue = s.queue /\ back.handled = s.handled
      /\ back.tombstones = s.tombstones /\ back.consensus_pending = s.consensus_pending
      /\ back.released = s.released /\ back.overdue = s.overdue /\ back.slot = s.slot
      /\ back.order_applied = s.order_applied
  <2>1. CASE s.cancel_pending /\ d.epoch = 1
    BY <2>1 DEF App
  <2>2. CASE ~(s.cancel_pending /\ d.epoch = 1)
    BY <2>2
  <2> QED
    BY <2>1, <2>2
<1>2. \/ ApplyOrder(s, v, d) = s
      \/ ApplyOrder(s, v, d) = t
  <2>1. [back EXCEPT !.last = d.epoch, !.timers = {}].order_applied = back.order_applied
    BY <1>1 DEF App
  <2> QED
    BY <2>1 DEF ApplyOrder
<1> HIDE DEF back
<1>3. o \in BOOLEAN
  BY <1>1, AppFields
<1> HIDE DEF o
<1>4. /\ t \in App /\ t.queue = s.queue /\ t.handled = s.handled
      /\ t.tombstones = s.tombstones /\ t.slot = s.slot
      /\ t.released = s.released /\ t.overdue = s.overdue
      /\ t.consensus_pending = s.consensus_pending
  BY <1>0, <1>1, <1>3 DEF App
<1> QED
  BY <1>2, <1>4

\* The pass that takes d.
LEMMA TakeFields ==
    ASSUME NEW s \in App, NEW v \in Vehicle, s.handled < s.queue,
           Apply(s, v, decided[s.handled + 1]) \in App
    PROVE  LET t == TakeNext(s, v)
               u == Apply(s, v, decided[s.handled + 1])
           IN  /\ t \in App /\ t.handled = s.handled + 1
               /\ t.queue = u.queue /\ t.slot = u.slot /\ t.last = u.last
               /\ t.tombstones = u.tombstones /\ t.released = u.released
               /\ t.overdue = u.overdue /\ t.order_applied = u.order_applied
               /\ t.cancel_pending = u.cancel_pending
               /\ t.consensus_pending = u.consensus_pending
<1> DEFINE u == Apply(s, v, decided[s.handled + 1])
           n == s.handled + 1
           t == [u EXCEPT !.handled = n]
<1>1. n \in 0 .. 3
  BY AppFields
<1>2. TakeNext(s, v) = t
  BY <1>1, AppFields DEF TakeNext
<1> HIDE DEF u
<1> HIDE DEF n
<1>3. /\ t \in App /\ t.handled = n
      /\ t.queue = u.queue /\ t.slot = u.slot /\ t.last = u.last
      /\ t.tombstones = u.tombstones /\ t.released = u.released
      /\ t.overdue = u.overdue /\ t.order_applied = u.order_applied
      /\ t.cancel_pending = u.cancel_pending
      /\ t.consensus_pending = u.consensus_pending
  <2>1. u \in App
    BY DEF u, n
  <2> QED
    BY <1>1, <2>1 DEF App
<1> QED
  BY <1>2, <1>3 DEF n, u

-----------------------------------------------------------------------------
(* processOrders(), one decision at a time *)

LEMMA TakeOrder0 ==
    ASSUME CrossInv, NEW v \in Vehicle, NEW s \in App, Sound(s, v),
           s.handled = 0, s.queue > 0
    PROVE  LET t == TakeNext(s, v)
           IN  /\ t \in App /\ Sound(t, v) /\ t.queue = s.queue /\ t.handled = 1
               /\ place[v] = "clear" => t.slot = s.slot
               /\ place[v] = "line" /\ MayStart(s) => MayStart(t)
<1> DEFINE t == TakeNext(s, v)
           b == BatchOf(0, v)
<1>1. Len(decided) >= 1 /\ decided \in Seq(Decision) /\ Len(decided) \in Nat
  BY AppFields DEF CrossInv, DecidedSound, Sound, AppSound
<1>2. /\ decided[1].kind = "ORDER" /\ decided[1].epoch = 0
      /\ b = decided[1].batch[v] /\ b \in 0 .. Batches - 1
  <2>1. b \in -1 .. Batches - 1 /\ b >= 0
    BY <1>1, BatchType DEF CrossInv, DecidedSound
  <2> QED
    BY <1>1, <2>1, CrossingAssumption DEF CrossInv, DecidedSound, BatchOf
<1>3. /\ s.tombstones = {} /\ ~s.cancel_pending /\ ~s.consensus_pending
      /\ s.slot = NoSlot /\ s.epoch >= 0
      /\ s.released => s.order_applied
  BY AppFields, SlotType DEF Sound, AppSound
<1>4. CASE place[v] = "clear" \/ s.order_applied
  <2>1. Apply(s, v, decided[s.handled + 1]) = s
    BY <1>2, <1>3, <1>4 DEF Apply, ApplyOrder
  <2>2. t \in App
    BY <2>1, TakeFields
  <2>3. /\ t.handled = 1 /\ t.queue = s.queue /\ t.slot = s.slot /\ t.released = s.released
        /\ t.tombstones = s.tombstones /\ t.cancel_pending = s.cancel_pending
        /\ t.consensus_pending = s.consensus_pending /\ t.order_applied = s.order_applied
        /\ t.overdue = s.overdue /\ t.last = s.last
    BY <2>1, TakeFields
  <2>4. AppSound(t, v) /\ InLineSound(t, v)
    BY <1>3, <1>4, <2>3, AppFields DEF Sound, AppSound, InLineSound
  <2>5. MemberSound(t, v) /\ ReleasedSound(t, v)
    BY <2>3, AppFields DEF Sound, MemberSound, ReleasedSound
  <2> QED
    BY <2>2, <2>3, <2>4, <2>5 DEF Sound, MayStart, CancelActive
<1>5. CASE place[v] # "clear" /\ ~s.order_applied
  <2>1. /\ t.handled = 1 /\ t.queue = s.queue /\ t.slot = [epoch |-> 0, batch |-> b]
        /\ t.released = (s.released \/ b = 0)
        /\ t.tombstones = s.tombstones /\ t.cancel_pending = s.cancel_pending
        /\ t.consensus_pending = s.consensus_pending /\ t.order_applied /\ t.last = 0
        /\ t \in App
    <3> DEFINE u == ApplyOrder(s, v, decided[1])
    <3>1. /\ u \in App /\ u.queue = s.queue
          /\ u.tombstones = s.tombstones /\ u.last = 0
          /\ u.slot = [epoch |-> 0, batch |-> b]
          /\ u.order_applied /\ u.consensus_pending = s.consensus_pending
          /\ u.cancel_pending = (s.cancel_pending /\ 0 # 1)
          /\ u.released = (s.released \/ b = 0)
      BY <1>1, <1>2, <1>3, <1>5, MemberFields
    <3>2. Apply(s, v, decided[s.handled + 1]) = u
      BY <1>2 DEF Apply
    <3> HIDE DEF u
    <3> QED
      BY <1>3, <3>1, <3>2, TakeFields, AppFields
  <2>3. t.slot # NoSlot /\ t.slot.epoch = 0 /\ t.slot.batch = b
    BY <2>1 DEF NoSlot
  <2>4. s.released = FALSE /\ place[v] = "line"
    BY <1>3, <1>5, AppFields DEF Sound, AppSound
  <2>5. AppSound(t, v) /\ InLineSound(t, v)
    BY <1>3, <2>1, <2>3, <2>4, AppFields DEF Sound, AppSound, InLineSound
  <2>6. MemberSound(t, v)
    BY <2>1, AppFields DEF Sound, MemberSound
  <2>7. ReleasedSound(t, v)
    <3>1. t.released => b = 0
      BY <2>1, <2>4
    <3> QED
      BY <1>2, <2>3, <3>1 DEF ReleasedSound
  <2> QED
    BY <1>3, <1>5, <2>1, <2>3, <2>5, <2>6, <2>7 DEF Sound, MayStart, CancelActive
<1> QED
  BY <1>4, <1>5

LEMMA TakeCancel ==
    ASSUME CrossInv, NEW v \in Vehicle, NEW s \in App, Sound(s, v),
           s.handled = 1, s.queue > 1
    PROVE  LET t == TakeNext(s, v)
           IN  /\ t \in App /\ Sound(t, v) /\ t.queue = s.queue /\ t.handled = 2
               /\ place[v] = "clear" => t.slot = s.slot
               /\ place[v] = "line" /\ MayStart(s) => MayStart(t)
<1> DEFINE t == TakeNext(s, v)
<1>1. Len(decided) >= 2 /\ decided[2].kind = "CANCEL"
  BY AppFields DEF CrossInv, DecidedSound, Sound, AppSound
<1>2. s.tombstones = {} /\ s.cancel_pending = FALSE
  BY AppFields DEF Sound, AppSound
<1>3. /\ t.handled = 2 /\ t.queue = s.queue /\ t.slot = s.slot /\ t.last = s.last
      /\ t.tombstones = {0} /\ t.cancel_pending /\ ~t.consensus_pending /\ ~t.order_applied
      /\ t.released = (s.released /\ place[v] # "line")
      /\ t.overdue = (s.overdue /\ place[v] # "line")
      /\ t \in App
  <2> DEFINE r == [s EXCEPT !.tombstones = {0}, !.consensus_pending = FALSE]
             u == BeginDiscovery(r, v)
  <2>1. /\ r \in App /\ Kept([r EXCEPT !.tombstones = {}], s) /\ r.tombstones = {0}
        /\ ~r.consensus_pending /\ ~r.cancel_pending
        /\ r.released = s.released /\ r.overdue = s.overdue
    BY <1>2 DEF App, Kept
  <2>2. Apply(s, v, decided[s.handled + 1]) = u
    BY <1>1, <1>2 DEF Apply, ApplyCancel
  <2> HIDE DEF r
  <2>3. /\ u \in App /\ Kept(u, r) /\ u.cancel_pending /\ ~u.order_applied
        /\ u.consensus_pending = r.consensus_pending
        /\ u.released = (r.released /\ place[v] # "line")
        /\ u.overdue = (r.overdue /\ place[v] # "line")
    BY <2>1, BeginFields DEF CrossInv, TypeOK
  <2>4. u.queue = s.queue /\ u.slot = s.slot /\ u.last = s.last /\ u.tombstones = {0}
    BY <2>1, <2>3 DEF Kept, App
  <2> HIDE DEF u
  <2> QED
    BY <2>1, <2>2, <2>3, <2>4, TakeFields
<1>5. AppSound(t, v) /\ InLineSound(t, v) /\ MemberSound(t, v)
  BY <1>3, AppFields, SlotType DEF Sound, AppSound, InLineSound, MemberSound
<1>6. ReleasedSound(t, v)
  BY <1>3 DEF Sound, ReleasedSound
<1> QED
  BY <1>3, <1>5, <1>6 DEF Sound, MayStart

LEMMA TakeOrder1 ==
    ASSUME CrossInv, NEW v \in Vehicle, NEW s \in App, Sound(s, v),
           s.handled = 2, s.queue > 2
    PROVE  LET t == TakeNext(s, v)
           IN  /\ t \in App /\ Sound(t, v) /\ t.queue = s.queue /\ t.handled = 3
               /\ place[v] = "clear" => t.slot = s.slot
               /\ place[v] = "line" /\ MayStart(s) => MayStart(t)
<1> DEFINE t == TakeNext(s, v)
           b == BatchOf(1, v)
<1>1. Len(decided) = 3 /\ decided \in Seq(Decision) /\ decided[3] \in Decision
  <2>1. decided \in Seq(Decision) /\ Len(decided) \in Nat /\ Len(decided) <= 3
    BY DEF CrossInv, TypeOK, DecidedSound
  <2>2. Len(decided) >= 3
    BY <2>1, AppFields DEF Sound, AppSound
  <2>3. \A n \in Nat : n <= 3 /\ n >= 3 => n = 3
    OBVIOUS
  <2>4. Len(decided) = 3
    BY <2>1, <2>2, <2>3
  <2>5. 3 \in 1 .. Len(decided)
    BY <2>4
  <2>6. decided[3] \in Decision
    BY <2>1, <2>5
  <2> QED
    BY <2>1, <2>4, <2>6
<1>2. /\ decided[3].kind = "ORDER" /\ decided[3].epoch = 1
      /\ b = decided[3].batch[v] /\ b \in -1 .. Batches - 1
      /\ place[v] = "line" => b >= 0
  BY <1>1, BatchType DEF CrossInv, DecidedSound, BatchOf
<1>3. s.tombstones = {0} /\ ~s.consensus_pending
  BY AppFields DEF Sound, AppSound
<1>4. CASE b >= 0
  <2>1. place[v] = "line" /\ s.cancel_pending /\ ~s.released /\ ~s.order_applied
    BY <1>1, <1>4 DEF Sound, MemberSound, InLineSound
  <2>2. b \in 0 .. Batches - 1
    BY <1>2, <1>4, CrossingAssumption
  <2>3. /\ t.handled = 3 /\ t.queue = s.queue /\ t.slot = [epoch |-> 1, batch |-> b]
        /\ t.released = (b = 0)
        /\ t.tombstones = s.tombstones /\ ~t.cancel_pending
        /\ t.consensus_pending = s.consensus_pending /\ t.order_applied /\ t.last = 1
        /\ t \in App
    <3> DEFINE u == ApplyOrder(s, v, decided[3])
    <3>1. /\ u \in App /\ u.queue = s.queue
          /\ u.tombstones = s.tombstones /\ u.last = 1
          /\ u.slot = [epoch |-> 1, batch |-> b]
          /\ u.order_applied /\ u.consensus_pending = s.consensus_pending
          /\ u.cancel_pending = (s.cancel_pending /\ 1 # 1)
          /\ u.released = (s.released \/ b = 0)
      BY <1>1, <1>2, <1>3, <2>1, <2>2, MemberFields
    <3>2. Apply(s, v, decided[s.handled + 1]) = u
      BY <1>2 DEF Apply
    <3> HIDE DEF u
    <3> QED
      BY <2>1, <3>1, <3>2, TakeFields, AppFields
  <2>5. t.slot # NoSlot /\ t.slot.epoch = 1 /\ t.slot.batch = b
    BY <2>3 DEF NoSlot
  <2>6. AppSound(t, v) /\ InLineSound(t, v)
    BY <1>3, <2>1, <2>3, <2>5, AppFields DEF Sound, AppSound, InLineSound
  <2>7. MemberSound(t, v) /\ ReleasedSound(t, v)
    <3>1. t.released => b = 0
      BY <2>3
    <3> QED
      BY <2>2, <2>3, <2>5, <3>1 DEF MemberSound, ReleasedSound
  <2> QED
    BY <1>3, <2>1, <2>3, <2>5, <2>6, <2>7 DEF Sound, MayStart, CancelActive
<1>5. CASE b < 0
  <2>1. place[v] # "line"
    BY <1>2, <1>5
  <2>2. /\ t.handled = 3 /\ t.queue = s.queue /\ t.slot = s.slot /\ t.released = s.released
        /\ t.tombstones = s.tombstones /\ t.overdue = s.overdue
        /\ t.consensus_pending = s.consensus_pending
        /\ t \in App
    <3> DEFINE u == ApplyOrder(s, v, decided[3])
    <3>1. /\ u \in App /\ u.queue = s.queue
          /\ u.tombstones = s.tombstones /\ u.slot = s.slot
          /\ u.released = s.released /\ u.overdue = s.overdue
          /\ u.consensus_pending = s.consensus_pending
      BY <1>1, <1>2, <1>5, ExcludedFields
    <3>2. Apply(s, v, decided[s.handled + 1]) = u
      BY <1>2 DEF Apply
    <3> HIDE DEF u
    <3> QED
      BY <3>1, <3>2, TakeFields
  <2>4. AppSound(t, v) /\ InLineSound(t, v)
    BY <1>3, <2>1, <2>2, AppFields, SlotType DEF Sound, AppSound, InLineSound
  <2>5. MemberSound(t, v) /\ ReleasedSound(t, v)
    BY <1>2, <1>5, <2>2 DEF Sound, MemberSound, ReleasedSound
  <2> QED
    BY <2>1, <2>2, <2>4, <2>5 DEF Sound
<1> QED
  BY <1>2, <1>4, <1>5

LEMMA TakeNextKeeps ==
    ASSUME CrossInv, NEW v \in Vehicle, NEW s \in App, Sound(s, v)
    PROVE  LET t == TakeNext(s, v)
           IN  /\ t \in App /\ Sound(t, v) /\ t.queue = s.queue
               /\ t.handled = IF s.handled < s.queue THEN s.handled + 1 ELSE s.handled
               /\ place[v] = "clear" => t.slot = s.slot
               /\ place[v] = "line" /\ MayStart(s) => MayStart(t)
<1>1. s.handled \in 0 .. 3 /\ s.queue \in 0 .. 3
  BY AppFields
<1>2. CASE s.handled >= s.queue
  BY <1>1, <1>2 DEF TakeNext
<1>3. CASE s.handled < s.queue
  <2>1. s.handled = 0 \/ s.handled = 1 \/ s.handled = 2
    BY <1>1, <1>3
  <2>2. CASE s.handled = 0
    BY <1>3, <2>2, TakeOrder0
  <2>3. CASE s.handled = 1
    BY <1>3, <2>3, TakeCancel
  <2>4. CASE s.handled = 2
    BY <1>3, <2>4, TakeOrder1
  <2> QED
    BY <2>1, <2>2, <2>3, <2>4
<1> QED
  BY <1>1, <1>2, <1>3

\* All that is queued.
LEMMA ProcessKeeps ==
    ASSUME CrossInv, NEW v \in Vehicle, NEW s \in App, Sound(s, v)
    PROVE  LET p == processOrders(s, v)
           IN  /\ p \in App /\ Sound(p, v) /\ p.queue = s.queue /\ p.handled = s.queue
               /\ place[v] = "clear" => p.slot = s.slot
               /\ place[v] = "line" /\ MayStart(s) => MayStart(p)
<1> DEFINE a == TakeNext(s, v)
           b == TakeNext(a, v)
           c == TakeNext(b, v)
<1>1. processOrders(s, v) = c
  BY DEF processOrders
<1>2. s.handled \in 0 .. 3 /\ s.queue \in 0 .. 3 /\ s.handled <= s.queue
  BY AppFields DEF Sound, AppSound
<1>3. /\ a \in App /\ Sound(a, v) /\ a.queue = s.queue
      /\ a.handled = IF s.handled < s.queue THEN s.handled + 1 ELSE s.handled
      /\ place[v] = "clear" => a.slot = s.slot
      /\ place[v] = "line" /\ MayStart(s) => MayStart(a)
  BY TakeNextKeeps
<1> HIDE DEF a
<1>4. /\ b \in App /\ Sound(b, v) /\ b.queue = a.queue
      /\ b.handled = IF a.handled < a.queue THEN a.handled + 1 ELSE a.handled
      /\ place[v] = "clear" => b.slot = a.slot
      /\ place[v] = "line" /\ MayStart(a) => MayStart(b)
  BY <1>3, TakeNextKeeps
<1> HIDE DEF b
<1>5. /\ c \in App /\ Sound(c, v) /\ c.queue = b.queue
      /\ c.handled = IF b.handled < b.queue THEN b.handled + 1 ELSE b.handled
      /\ place[v] = "clear" => c.slot = b.slot
      /\ place[v] = "line" /\ MayStart(b) => MayStart(c)
  BY <1>4, TakeNextKeeps
<1> HIDE DEF c
<1>6. c.handled = s.queue /\ c.queue = s.queue
  BY <1>2, <1>3, <1>4, <1>5
<1> QED
  BY <1>1, <1>3, <1>4, <1>5, <1>6

\* A step of one app.
LEMMA StepKeeps ==
    ASSUME CrossInv, NEW v \in Vehicle, NEW s \in App, Sound(s, v),
           app' = [app EXCEPT ![v] = s], wreck' \in Vehicle \cup {Nobody},
           UNCHANGED <<place, decided, enableRollback>>,
           place[v] = "clear" => s.slot = app[v].slot
    PROVE  CrossInv'
<1>1. app \in [Vehicle -> App] /\ app' = [app EXCEPT ![v] = s]
      /\ UNCHANGED <<place, decided, enableRollback>>
  BY DEF CrossInv, TypeOK
<1>2. app' \in [Vehicle -> App] /\ app'[v] = s
  BY <1>1
<1>3. TypeOK'
  BY <1>1, <1>2 DEF CrossInv, TypeOK, Sound, AppSound
<1>4. DecidedSound'
  BY <1>1 DEF CrossInv, DecidedSound, BatchOf
<1>5. ASSUME NEW x \in Vehicle PROVE Sound(app[x], x)'
  <2> DEFINE t == app'[x]
  <2>1. t \in App /\ t.slot \in Slot \cup {NoSlot}
    BY <1>2 DEF App
  <2>2. Sound(t, x)
    BY <1>1, <1>2 DEF CrossInv
  <2>3. AppSound(app[x], x)' /\ InLineSound(app[x], x)' /\ MemberSound(app[x], x)'
    BY <1>1, <2>2 DEF Sound, AppSound, InLineSound, MemberSound, BatchOf
  <2>4. ReleasedSound(app[x], x)'
    <3> SUFFICES ASSUME t.released, t.slot # NoSlot, t.slot.batch > 0, ~t.overdue,
                        NEW w \in Vehicle, BatchOf(t.slot.epoch, w) = t.slot.batch - 1
                 PROVE  place[w] = "clear" /\ app'[w].slot.epoch \in {-1, t.slot.epoch}
      BY <1>1 DEF ReleasedSound, BatchOf
    <3>1. place[w] = "clear" /\ app[w].slot.epoch \in {-1, t.slot.epoch}
      BY <2>2 DEF Sound, ReleasedSound
    <3>2. app'[w].slot = app[w].slot
      BY <1>1, <1>2, <3>1
    <3> QED
      BY <3>1, <3>2
  <2> QED
    BY <2>3, <2>4 DEF Sound
<1> QED
  BY <1>3, <1>4, <1>5 DEF CrossInv

-----------------------------------------------------------------------------
(* The steps of an app *)

\* If v starts on its way from app[v] to s, nothing speaks against it.
StartsFit(s, v) ==
    ~app[v].released /\ s.released =>
        /\ ~CancelActive(s)
        /\ s.slot.epoch \notin s.tombstones
        /\ s.slot = NoSlot => ~enableRollback /\ app[v].queue = 0

StepOK(s, v) ==
    /\ s \in App /\ Sound(s, v) /\ StartsFit(s, v)
    /\ place[v] = "clear" => s.slot = app[v].slot

LEMMA AppOf ==
    ASSUME CrossInv, NEW v \in Vehicle
    PROVE  /\ app[v] \in App /\ Sound(app[v], v)
           /\ ~app[v].released => place[v] = "line"
           /\ place[v] \in {"line", "box", "clear"}
BY DEF CrossInv, TypeOK, Sound, AppSound

\* What a step may change without touching what Sound is about.
LEMMA Unnoticed ==
    ASSUME CrossInv, NEW v \in Vehicle, NEW s \in App, NEW t \in App, Sound(s, v),
           Kept(t, s), t.released = s.released, t.overdue = s.overdue,
           t.order_applied = s.order_applied, t.cancel_pending = s.cancel_pending,
           t.consensus_pending = s.consensus_pending
    PROVE  Sound(t, v)
BY AppFields DEF Kept, Sound, AppSound, InLineSound, MemberSound, ReleasedSound

LEMMA StopZoneStep ==
    ASSUME CrossInv, NEW v \in Vehicle, EnterStopZone(v)
    PROVE  \E s : StepOK(s, v) /\ Step(v, s)
<1> DEFINE s == [app[v] EXCEPT !.entered = TRUE, !.released = FALSE, !.timers = Timer]
<1>1. Step(v, s)
  BY DEF EnterStopZone, Step
<1>2. app[v] \in App /\ Sound(app[v], v) /\ place[v] = "line"
  BY AppOf DEF EnterStopZone
<1>3. /\ s \in App /\ Kept(s, app[v]) /\ ~s.released
      /\ s.order_applied = app[v].order_applied /\ s.cancel_pending = app[v].cancel_pending
      /\ s.consensus_pending = app[v].consensus_pending
  BY <1>2 DEF App, Kept
<1> HIDE DEF s
<1>4. AppSound(s, v) /\ InLineSound(s, v) /\ MemberSound(s, v) /\ ReleasedSound(s, v)
  BY <1>2, <1>3, AppFields
     DEF Kept, Sound, AppSound, InLineSound, MemberSound, ReleasedSound
<1>5. StepOK(s, v)
  BY <1>3, <1>4 DEF StepOK, Sound, StartsFit, Kept
<1> QED
  BY <1>1, <1>5

LEMMA DeliverStep ==
    ASSUME CrossInv, NEW v \in Vehicle, Deliver(v)
    PROVE  \E s : StepOK(s, v) /\ Step(v, s)
<1> DEFINE n == app[v].queue + 1
           s == [app[v] EXCEPT !.queue = n]
<1>1. Step(v, s)
  BY DEF Deliver
<1>2. app[v] \in App /\ Sound(app[v], v)
  BY AppOf
<1>3. n \in 0 .. 3 /\ n <= Len(decided) /\ app[v].queue <= n
  <2>1. Len(decided) \in Nat /\ Len(decided) <= 3
    BY DEF CrossInv, TypeOK, DecidedSound
  <2> QED
    BY <1>2, <2>1, AppFields DEF Deliver
<1> HIDE DEF n
<1>4. /\ s \in App /\ s.queue = n /\ s.handled = app[v].handled /\ s.slot = app[v].slot
      /\ s.last = app[v].last /\ s.tombstones = app[v].tombstones
      /\ s.released = app[v].released /\ s.overdue = app[v].overdue
      /\ s.order_applied = app[v].order_applied /\ s.cancel_pending = app[v].cancel_pending
      /\ s.consensus_pending = app[v].consensus_pending
  BY <1>2, <1>3 DEF App
<1> HIDE DEF s
<1>5. AppSound(s, v) /\ InLineSound(s, v) /\ MemberSound(s, v) /\ ReleasedSound(s, v)
  BY <1>2, <1>3, <1>4, AppFields
     DEF Sound, AppSound, InLineSound, MemberSound, ReleasedSound
<1>6. StepOK(s, v)
  BY <1>4, <1>5 DEF StepOK, Sound, StartsFit
<1> QED
  BY <1>1, <1>6

\* Who waits in line may be started.
LEMMA WaitingMayStart ==
    ASSUME NEW s \in App, ~s.released
    PROVE  MayStart(s)
BY DEF MayStart

LEMMA MayStartFits ==
    ASSUME NEW v \in Vehicle, NEW s \in App, ~app[v].released => MayStart(s)
    PROVE  StartsFit(s, v)
BY SlotType, AppFields DEF MayStart, StartsFit

LEMMA PollStep ==
    ASSUME CrossInv, NEW v \in Vehicle, TransportPoll(v)
    PROVE  \E s : StepOK(s, v) /\ Step(v, s)
<1> DEFINE s == processOrders(app[v], v)
<1>1. Step(v, s)
  BY DEF TransportPoll
<1>2. app[v] \in App /\ Sound(app[v], v) /\ (~app[v].released => place[v] = "line")
  BY AppOf
<1>3. /\ s \in App /\ Sound(s, v)
      /\ place[v] = "clear" => s.slot = app[v].slot
      /\ place[v] = "line" /\ MayStart(app[v]) => MayStart(s)
  BY <1>2, ProcessKeeps
<1> HIDE DEF s
<1>4. ~app[v].released => MayStart(s)
  BY <1>2, <1>3, WaitingMayStart
<1>5. StepOK(s, v)
  BY <1>3, <1>4, MayStartFits DEF StepOK
<1> QED
  BY <1>1, <1>5

LEMMA CancelCertStep ==
    ASSUME CrossInv, NEW v \in Vehicle, HandleCancelCert(v)
    PROVE  \E s : StepOK(s, v) /\ Step(v, s)
<1> DEFINE i == IF app[v].incident = "NONE" THEN "BLOCKING" ELSE app[v].incident
           s == [app[v] EXCEPT !.incident = i]
           r == IF isRecallable(v) THEN Recall(s) ELSE s
           t == [r EXCEPT !.consensus_pending = TRUE]
           u == IF CancelActive(s) \/ 0 \in s.tombstones THEN s ELSE t
<1>1. app[v] \in App /\ Sound(app[v], v) /\ (~app[v].released => place[v] = "line")
  BY AppOf
<1>2. i \in {"NONE", "BLOCKING", "CLEARED"}
  BY <1>1 DEF App
<1>3. Step(v, u) /\ s.last >= 0
  BY DEF HandleCancelCert
<1> HIDE DEF i
<1>4. /\ s \in App /\ Kept(s, app[v]) /\ s.released = app[v].released
      /\ s.overdue = app[v].overdue /\ s.order_applied = app[v].order_applied
      /\ s.cancel_pending = app[v].cancel_pending
      /\ s.consensus_pending = app[v].consensus_pending
  BY <1>1, <1>2 DEF App, Kept
<1> HIDE DEF s
<1>5. Sound(s, v)
  BY <1>1, <1>4, Unnoticed
<1>6. CASE CancelActive(s) \/ 0 \in s.tombstones
  <2>1. StepOK(s, v)
    BY <1>4, <1>5 DEF StepOK, StartsFit, Kept
  <2> QED
    BY <1>3, <1>6, <2>1
<1>7. CASE ~(CancelActive(s) \/ 0 \in s.tombstones)
  <2>1. s.handled = 1 /\ ~s.cancel_pending
    BY <1>3, <1>4, <1>5, <1>7, AppFields DEF Sound, AppSound, CancelActive
  <2>2. /\ r \in App /\ Kept(r, s) /\ r.order_applied = s.order_applied
        /\ r.cancel_pending = s.cancel_pending
        /\ r.released => s.released /\ place[v] # "line"
        /\ place[v] # "line" => r.released = s.released /\ r.overdue = s.overdue
    <3>1. CASE place[v] = "line"
      BY <1>4, <3>1, RecallFields DEF isRecallable
    <3>2. CASE place[v] # "line"
      BY <1>4, <3>2 DEF isRecallable, Kept
    <3> QED
      BY <3>1, <3>2
  <2> HIDE DEF r
  <2>3. /\ t \in App /\ Kept(t, r) /\ t.order_applied = r.order_applied
        /\ t.cancel_pending = r.cancel_pending /\ t.consensus_pending
        /\ t.released = r.released /\ t.overdue = r.overdue
    BY <2>2 DEF App, Kept
  <2> HIDE DEF t
  <2>4. /\ t.handled = 1 /\ t.queue = s.queue /\ t.slot = s.slot /\ t.last = s.last
        /\ t.tombstones = s.tombstones /\ t.order_applied = s.order_applied
        /\ ~t.cancel_pending
        /\ t.released => s.released /\ place[v] # "line"
        /\ place[v] # "line" => t.released = s.released /\ t.overdue = s.overdue
    BY <2>1, <2>2, <2>3 DEF Kept
  <2>5. AppSound(t, v)
    BY <1>4, <1>5, <2>1, <2>4, AppFields DEF Sound, AppSound
  <2>6. InLineSound(t, v) /\ MemberSound(t, v)
    BY <1>4, <1>5, <2>1, <2>4, AppFields DEF Sound, InLineSound, MemberSound
  <2>7. ReleasedSound(t, v)
    BY <1>5, <2>4 DEF Sound, ReleasedSound
  <2>8. StepOK(t, v)
    BY <1>1, <1>4, <2>3, <2>4, <2>5, <2>6, <2>7 DEF StepOK, Sound, StartsFit, Kept
  <2> QED
    BY <1>3, <1>7, <2>8
<1> QED
  BY <1>6, <1>7

LEMMA ClearCertStep ==
    ASSUME CrossInv, NEW v \in Vehicle, HandleClearCert(v)
    PROVE  \E s : StepOK(s, v) /\ Step(v, s)
<1> DEFINE s == [app[v] EXCEPT !.incident = "CLEARED"]
<1>1. Step(v, s)
  BY DEF HandleClearCert
<1>2. app[v] \in App /\ Sound(app[v], v)
  BY AppOf
<1>3. /\ s \in App /\ Kept(s, app[v]) /\ s.released = app[v].released
      /\ s.overdue = app[v].overdue /\ s.order_applied = app[v].order_applied
      /\ s.cancel_pending = app[v].cancel_pending
      /\ s.consensus_pending = app[v].consensus_pending
  BY <1>2 DEF App, Kept
<1> HIDE DEF s
<1>4. StepOK(s, v)
  BY <1>2, <1>3, Unnoticed DEF StepOK, StartsFit, Kept
<1> QED
  BY <1>1, <1>4

LEMMA TimeoutStep ==
    ASSUME CrossInv, NEW v \in Vehicle, NEW timer \in Timer, Timeout(v, timer)
    PROVE  \E s : StepOK(s, v) /\ Step(v, s)
<1> DEFINE ts == app[v].timers \ {timer}
           s == [app[v] EXCEPT !.timers = ts]
           p == processOrders(s, v)
           q == [p EXCEPT !.order_applied = TRUE]
           t == [q EXCEPT !.released = TRUE]
           Stays == p.order_applied \/ CancelActive(p) \/ enableRollback
<1>1. app[v] \in App /\ Sound(app[v], v) /\ (~app[v].released => place[v] = "line")
  BY AppOf
<1>2. Step(v, IF Stays THEN p ELSE t)
  BY DEF Timeout, resumeVehicle
<1>3. ts \in SUBSET Timer
  BY <1>1, AppFields
<1> HIDE DEF ts
<1>4. /\ s \in App /\ Kept(s, app[v]) /\ s.released = app[v].released
      /\ s.overdue = app[v].overdue /\ s.order_applied = app[v].order_applied
      /\ s.cancel_pending = app[v].cancel_pending
      /\ s.consensus_pending = app[v].consensus_pending
  BY <1>1, <1>3 DEF App, Kept
<1> HIDE DEF s
<1>5. Sound(s, v)
  BY <1>1, <1>4, Unnoticed
<1>6. /\ p \in App /\ Sound(p, v) /\ p.queue = app[v].queue /\ p.handled = app[v].queue
      /\ place[v] = "clear" => p.slot = app[v].slot
      /\ place[v] = "line" /\ MayStart(s) => MayStart(p)
  BY <1>4, <1>5, ProcessKeeps DEF Kept
<1> HIDE DEF p
<1>7. StepOK(p, v)
  BY <1>1, <1>4, <1>6, WaitingMayStart, MayStartFits DEF StepOK
<1>8. CASE Stays
  BY <1>2, <1>7, <1>8
<1>9. CASE ~Stays
  <2>1. /\ t \in App /\ Kept(t, p) /\ t.released = TRUE /\ t.order_applied = TRUE
        /\ t.overdue = p.overdue /\ t.cancel_pending = p.cancel_pending
        /\ t.consensus_pending = p.consensus_pending
    BY <1>6 DEF App, Kept
  <2> HIDE DEF t
  <2>2. ~p.order_applied /\ ~p.cancel_pending /\ ~p.consensus_pending /\ ~enableRollback
    BY <1>9 DEF CancelActive
  <2>3. place[v] = "line" => p.handled = 0 /\ p.slot = NoSlot
    <3> SUFFICES ASSUME place[v] = "line" PROVE p.handled = 0 /\ p.slot = NoSlot
      OBVIOUS
    <3>1. p.handled = 0
      BY <1>6, <2>2, AppFields DEF Sound, InLineSound
    <3> QED
      BY <1>6, <3>1, AppFields, SlotType DEF Sound, AppSound
  <2>4. place[v] # "line" => p.released = TRUE
    BY <1>6, AppFields DEF Sound, AppSound
  <2>5. AppSound(t, v) /\ InLineSound(t, v)
    BY <1>6, <2>1, <2>2, <2>3, AppFields DEF Kept, Sound, AppSound, InLineSound
  <2>6. MemberSound(t, v)
    BY <1>6, <2>1, <2>2 DEF Kept, Sound, MemberSound
  <2>7. ReleasedSound(t, v)
    BY <1>6, <2>1, <2>3, <2>4 DEF Kept, Sound, ReleasedSound
  <2>8. StartsFit(t, v)
    BY <1>1, <1>6, <2>1, <2>2, <2>3, AppFields DEF Kept, StartsFit, CancelActive, NoSlot
  <2>9. StepOK(t, v)
    BY <1>6, <2>1, <2>5, <2>6, <2>7, <2>8 DEF Kept, StepOK, Sound
  <2> QED
    BY <1>2, <1>9, <2>9
<1> QED
  BY <1>8, <1>9

\* A scan for the wreck or the empty box only moves the dwell times.
LEMMA ScanFields ==
    ASSUME NEW s \in App, NEW c \in Scan(s)
    PROVE  /\ c \in App /\ Kept(c, s) /\ c.released = s.released /\ c.overdue = s.overdue
           /\ c.order_applied = s.order_applied /\ c.cancel_pending = s.cancel_pending
           /\ c.consensus_pending = s.consensus_pending
<1> DEFINE Same(x, y) ==
        /\ x \in App /\ Kept(x, y) /\ x.released = y.released /\ x.overdue = y.overdue
        /\ x.order_applied = y.order_applied /\ x.cancel_pending = y.cancel_pending
        /\ x.consensus_pending = y.consensus_pending
<1>1. ASSUME NEW x \in App PROVE Same(x, x)
  BY DEF Kept
<1>2. ASSUME NEW x \in App, NEW d \in Dwell PROVE Same([x EXCEPT !.crash = d], x)
  BY DEF App, Kept
<1>3. ASSUME NEW x \in App, NEW d \in Dwell PROVE Same([x EXCEPT !.clear = d], x)
  BY DEF App, Kept
<1>4. ASSUME NEW x \in App, NEW y \in ScanCrash(x) PROVE Same(y, x)
  <2>1. \/ y = x
        \/ \E d \in Dwell : y = [x EXCEPT !.crash = d]
    <3> DEFINE d == IF x.crash = "ECHOED" THEN x.crash ELSE "NO"
    <3>1. d \in Dwell
      BY DEF Dwell
    <3> QED
      BY <3>1 DEF ScanCrash, Dwell
  <2>2. CASE y = x
    BY <1>1, <2>2
  <2>3. CASE \E d \in Dwell : y = [x EXCEPT !.crash = d]
    <3>1. PICK d \in Dwell : y = [x EXCEPT !.crash = d]
      BY <2>3
    <3>2. Same([x EXCEPT !.crash = d], x)
      BY <1>2
    <3> HIDE DEF Same
    <3> QED
      BY <3>1, <3>2
  <2> QED
    BY <2>1, <2>2, <2>3
<1>5. ASSUME NEW x \in App, NEW y \in ScanClear(x) PROVE Same(y, x)
  <2>1. \/ y = x
        \/ \E d \in Dwell : y = [x EXCEPT !.clear = d]
    BY DEF ScanClear, Dwell
  <2>2. CASE y = x
    BY <1>1, <2>2
  <2>3. CASE \E d \in Dwell : y = [x EXCEPT !.clear = d]
    <3>1. PICK d \in Dwell : y = [x EXCEPT !.clear = d]
      BY <2>3
    <3>2. Same([x EXCEPT !.clear = d], x)
      BY <1>3
    <3> HIDE DEF Same
    <3> QED
      BY <3>1, <3>2
  <2> QED
    BY <2>1, <2>2, <2>3
<1>6. CASE enableRollback
  <2>1. PICK y \in ScanCrash(s) : c \in ScanClear(y)
    BY <1>6 DEF Scan
  <2>2. Same(y, s)
    BY <1>4
  <2>3. Same(c, y)
    BY <1>5, <2>1, <2>2
  <2> QED
    BY <2>2, <2>3 DEF Kept
<1>7. CASE ~enableRollback
  BY <1>1, <1>7 DEF Scan
<1> QED
  BY <1>6, <1>7

LEMMA PrecedingStep ==
    ASSUME CrossInv, NEW v \in Vehicle, PrecedingBatchPoll(v)
    PROVE  \E s : StepOK(s, v) /\ Step(v, s)
<1>1. app[v] \in App /\ Sound(app[v], v) /\ (~app[v].released => place[v] = "line")
  BY AppOf
<1>2. PICK c \in Scan(app[v]), late \in {FALSE, Timeouts} : Step(v, Gate(c, late))
  BY DEF PrecedingBatchPoll
<1>3. /\ c \in App /\ Kept(c, app[v]) /\ c.released = app[v].released
      /\ c.overdue = app[v].overdue /\ c.order_applied = app[v].order_applied
      /\ c.cancel_pending = app[v].cancel_pending
      /\ c.consensus_pending = app[v].consensus_pending
  BY <1>1, ScanFields
<1>4. Sound(c, v)
  BY <1>1, <1>3, Unnoticed
<1>5. StepOK(c, v)
  BY <1>3, <1>4 DEF StepOK, StartsFit, Kept
<1> DEFINE off == [c EXCEPT !.poll = FALSE]
           o == c.overdue \/ ~AllCleared(c)
           late2 == [c EXCEPT !.poll = FALSE, !.overdue = o]
           t == [late2 EXCEPT !.released = TRUE]
<1>6. CASE c.slot.batch <= 0
  <2>1. Step(v, off)
    BY <1>2, <1>6 DEF Gate
  <2>2. /\ off \in App /\ Kept(off, c) /\ off.released = c.released
        /\ off.overdue = c.overdue /\ off.order_applied = c.order_applied
        /\ off.cancel_pending = c.cancel_pending
        /\ off.consensus_pending = c.consensus_pending
    BY <1>3 DEF App, Kept
  <2> HIDE DEF off
  <2>3. Sound(off, v)
    BY <1>3, <1>4, <2>2, Unnoticed
  <2>4. StepOK(off, v)
    BY <1>3, <2>2, <2>3 DEF StepOK, StartsFit, Kept
  <2> QED
    BY <2>1, <2>4
<1>7. CASE ~(c.slot.batch <= 0) /\ ~((AllCleared(c) \/ late) /\ ~CancelActive(c))
  BY <1>2, <1>5, <1>7 DEF Gate
<1>8. CASE ~(c.slot.batch <= 0) /\ (AllCleared(c) \/ late) /\ ~CancelActive(c)
  <2>1. Step(v, t)
    BY <1>2, <1>8 DEF Gate, resumeVehicle
  <2>2. o \in BOOLEAN
    BY <1>3, AppFields DEF AllCleared
  <2>3. o = FALSE => ~c.overdue /\ AllCleared(c)
    OBVIOUS
  <2> HIDE DEF o
  <2>4. /\ t \in App /\ Kept(t, c) /\ t.released = TRUE /\ t.overdue = o
        /\ t.order_applied = c.order_applied /\ t.cancel_pending = c.cancel_pending
        /\ t.consensus_pending = c.consensus_pending
    BY <1>3, <2>2 DEF App, Kept
  <2> HIDE DEF t
  <2>5. /\ ~c.cancel_pending /\ ~c.consensus_pending
        /\ c.slot # NoSlot /\ c.slot.batch > 0 /\ c.slot.epoch \in {0, 1}
        /\ c.slot.batch \in 0 .. Batches - 1
    <3>1. /\ c.slot.epoch \in {-1, 0, 1} /\ c.slot.batch \in -1 .. Batches - 1
          /\ c.slot = NoSlot <=> c.slot.epoch = -1
          /\ c.slot # NoSlot => c.slot.batch \in 0 .. Batches - 1
      BY <1>3, SlotType, AppFields
    <3>2. c.slot # NoSlot
      BY <1>8, CrossingAssumption DEF NoSlot
    <3>3. Batches \in Nat
      BY CrossingAssumption
    <3> QED
      BY <1>8, <3>1, <3>2, <3>3 DEF CancelActive
  <2>6. AppSound(t, v)
    <3>1. t.handled <= 1 => t.order_applied
      <4>1. c.handled <= 1 => c.handled = 1 /\ c.slot.epoch = 0
        BY <1>3, <1>4, <2>5, AppFields DEF Sound, AppSound
      <4>2. place[v] = "line" /\ c.handled = 1 => c.order_applied
        BY <1>4 DEF Sound, InLineSound
      <4>3. place[v] # "line" /\ c.handled <= 1 => c.order_applied
        BY <1>4 DEF Sound, AppSound
      <4> QED
        BY <2>4, <4>1, <4>2, <4>3 DEF Kept
    <3> QED
      BY <1>4, <2>4, <2>5, <3>1 DEF Kept, Sound, AppSound
  <2>7. InLineSound(t, v) /\ MemberSound(t, v)
    BY <1>4, <2>4, <2>5 DEF Kept, Sound, InLineSound, MemberSound
  <2>8. ReleasedSound(t, v)
    <3> DEFINE e == c.slot.epoch
    <3> SUFFICES ASSUME ~o, NEW w \in Vehicle, BatchOf(e, w) = c.slot.batch - 1
                 PROVE  place[w] = "clear" /\ app[w].slot.epoch \in {-1, e}
      BY <2>4 DEF Kept, ReleasedSound
    <3>1. place[w] = "clear" /\ ~c.overdue
      BY <2>2, <2>3 DEF AllCleared, Preceding
    <3>2. /\ app[w] \in App /\ Sound(app[w], w)
          /\ app[w].slot.epoch \in {-1, 0, 1}
          /\ app[w].handled \in 0 .. 3 /\ app[w].queue \in 0 .. 3
      BY AppOf, SlotType, AppFields
    <3>3. CASE e = 0
      <4> SUFFICES ASSUME app[w].slot.epoch = 1
                   PROVE  app[w].slot.epoch \in {-1, e}
        BY <3>1, <3>2, <3>3
      <4>1. Len(decided) = 3
        <5>1. app[w].handled = 3 /\ app[w].queue = 3 /\ app[w].queue <= Len(decided)
          BY <3>2 DEF Sound, AppSound
        <5>2. Len(decided) \in Nat /\ Len(decided) <= 3
          BY DEF CrossInv, TypeOK, DecidedSound
        <5>3. \A n \in Nat : n <= 3 /\ 3 <= n => n = 3
          OBVIOUS
        <5> QED
          BY <5>1, <5>2, <5>3
      <4>2. place[v] # "line"
        <5> SUFFICES ASSUME place[v] = "line" PROVE FALSE
          OBVIOUS
        <5>1. BatchOf(1, v) >= 0
          BY <4>1 DEF CrossInv, DecidedSound
        <5> QED
          BY <1>4, <2>5, <3>3, <4>1, <5>1 DEF Sound, MemberSound
      <4>3. c.released
        BY <1>4, <4>2 DEF Sound, AppSound
      <4> QED
        BY <1>4, <2>5, <3>1, <4>3 DEF Sound, ReleasedSound
    <3>4. CASE e = 1
      <4>1. Len(decided) = 3
        <5>1. c.handled = 3 /\ c.queue = 3 /\ c.queue <= Len(decided)
          BY <1>3, <1>4, <3>4, AppFields DEF Sound, AppSound
        <5>2. Len(decided) \in Nat /\ Len(decided) <= 3
          BY DEF CrossInv, TypeOK, DecidedSound
        <5>3. \A n \in Nat : n <= 3 /\ 3 <= n => n = 3
          OBVIOUS
        <5> QED
          BY <5>1, <5>2, <5>3
      <4>2. BatchOf(1, w) >= 0
        <5>1. Batches \in Nat
          BY CrossingAssumption
        <5> QED
          BY <2>5, <3>4, <5>1
      <4> QED
        BY <3>1, <3>2, <3>4, <4>1, <4>2 DEF Sound, MemberSound
    <3> QED
      BY <2>5, <3>3, <3>4
  <2>9. StartsFit(t, v)
    <3>1. ASSUME ~app[v].released PROVE t.slot.epoch \notin t.tombstones
      <4>1. place[v] = "line" /\ t.slot = c.slot /\ t.tombstones = c.tombstones
        BY <1>1, <2>4, <3>1 DEF Kept
      <4>2. CASE c.slot.epoch = 1
        BY <1>3, <4>1, <4>2, AppFields
      <4>3. CASE c.slot.epoch = 0
        <5>1. c.handled = 1
          BY <1>3, <1>4, <2>5, <4>1, <4>3, AppFields DEF Sound, AppSound, InLineSound
        <5> QED
          BY <1>4, <4>1, <4>3, <5>1 DEF Sound, AppSound
      <4> QED
        BY <2>5, <4>2, <4>3
    <3>2. t.slot # NoSlot /\ ~CancelActive(t)
      BY <2>4, <2>5 DEF Kept, CancelActive
    <3> QED
      BY <3>1, <3>2 DEF StartsFit
  <2>10. StepOK(t, v)
    BY <1>3, <2>4, <2>6, <2>7, <2>8, <2>9 DEF Kept, StepOK, Sound
  <2> QED
    BY <2>1, <2>10
<1> QED
  BY <1>6, <1>7, <1>8

LEMMA AppSteps ==
    ASSUME CrossInv, NEW v \in Vehicle, AppNext(v)
    PROVE  \E s : StepOK(s, v) /\ Step(v, s)
BY StopZoneStep, DeliverStep, PollStep, CancelCertStep, ClearCertStep, TimeoutStep,
   PrecedingStep DEF AppNext

-----------------------------------------------------------------------------
(* The road *)

\* Vehicles move on, and only a released one leaves the line.
LEMMA RoadKeeps ==
    ASSUME CrossInv, NEW x \in Vehicle, NEW p \in {"box", "clear"},
           \/ place[x] = "line" /\ app[x].released
           \/ place[x] = "box" /\ p = "clear",
           place' = [place EXCEPT ![x] = p],
           UNCHANGED <<wreck, decided, enableRollback, app>>
    PROVE  CrossInv'
<1>1. /\ place' \in [Vehicle -> {"line", "box", "clear"}]
      /\ \A v \in Vehicle : place'[v] = IF v = x THEN p ELSE place[v]
  BY DEF CrossInv, TypeOK
<1>2. TypeOK'
  BY <1>1 DEF CrossInv, TypeOK
<1>3. /\ \A v \in Vehicle : place'[v] = "line" => place[v] = "line"
      /\ \A v \in Vehicle : place[v] = "clear" => place'[v] = "clear"
      /\ \A v \in Vehicle : place'[v] # "line" => app[v].released
      /\ \A v \in Vehicle : place[v] = "line" /\ ~app[v].released => place'[v] = "line"
  BY <1>1 DEF CrossInv, Sound, AppSound
<1>4. DecidedSound'
  BY <1>3 DEF CrossInv, DecidedSound, BatchOf
<1>5. ASSUME NEW v \in Vehicle PROVE Sound(app[v], v)'
  <2>1. Sound(app[v], v)
    BY DEF CrossInv
  <2>2. AppSound(app[v], v)' /\ InLineSound(app[v], v)' /\ MemberSound(app[v], v)'
    BY <1>3, <2>1 DEF Sound, AppSound, InLineSound, MemberSound, BatchOf
  <2>3. ReleasedSound(app[v], v)'
    BY <1>3, <2>1 DEF Sound, ReleasedSound, BatchOf
  <2> QED
    BY <2>2, <2>3 DEF Sound
<1> QED
  BY <1>2, <1>4, <1>5 DEF CrossInv

LEMMA CrashKeeps ==
    ASSUME CrossInv, NEW v \in Vehicle, Crash(v)
    PROVE  CrossInv'
<1> DEFINE s == [app[v] EXCEPT !.poll = FALSE]
<1>1. app' = [app EXCEPT ![v] = s] /\ wreck' = v
      /\ UNCHANGED <<place, decided, enableRollback>>
  BY DEF Crash
<1>2. app[v] \in App /\ Sound(app[v], v)
  BY AppOf
<1>3. /\ s \in App /\ Kept(s, app[v]) /\ s.released = app[v].released
      /\ s.overdue = app[v].overdue /\ s.order_applied = app[v].order_applied
      /\ s.cancel_pending = app[v].cancel_pending
      /\ s.consensus_pending = app[v].consensus_pending
  BY <1>2 DEF App, Kept
<1> HIDE DEF s
<1>4. Sound(s, v)
  BY <1>2, <1>3, Unnoticed
<1> QED
  BY <1>1, <1>3, <1>4, StepKeeps DEF Kept

-----------------------------------------------------------------------------
(* The decisions *)

LEMMA Appended ==
    ASSUME NEW q \in Seq(Decision), NEW d \in Decision, NEW n \in Nat, Len(q) = n
    PROVE  /\ Append(q, d) \in Seq(Decision) /\ Len(Append(q, d)) = n + 1
           /\ Append(q, d)[n + 1] = d
           /\ \A i \in 1 .. n : Append(q, d)[i] = q[i]
OBVIOUS

\* Appending changes no batch that anybody holds.
LEMMA DecideKeeps ==
    ASSUME CrossInv, NEW d \in Decision, Len(decided) < 3, Decide(d), DecidedSound',
           \A v \in Vehicle : MemberSound(app[v], v)'
    PROVE  CrossInv'
<1>1. /\ decided \in Seq(Decision) /\ Len(decided) \in Nat
      /\ decided' = Append(decided, d) /\ UNCHANGED <<place, wreck, enableRollback, app>>
  BY DEF CrossInv, DecidedSound, Decide
<1>2. /\ Len(decided') = Len(decided) + 1
      /\ \A i \in 1 .. Len(decided) : decided'[i] = decided[i]
  BY <1>1
<1>3. Len(decided') <= 3
  BY <1>1, <1>2
<1>4. TypeOK'
  <2>1. ASSUME NEW v \in Vehicle PROVE app[v].queue <= Len(decided')
    BY <1>1, <1>2, AppOf, AppFields DEF CrossInv, TypeOK
  <2> QED
    BY <1>1, <1>3, <2>1 DEF CrossInv, TypeOK
<1>5. ASSUME NEW v \in Vehicle PROVE Sound(app[v], v)'
  <2> DEFINE s == app[v]
  <2>1. /\ s \in App /\ Sound(s, v)
        /\ s.slot.epoch \in {-1, 0, 1} /\ (s.slot = NoSlot <=> s.slot.epoch = -1)
        /\ s.handled \in 0 .. 3 /\ s.queue \in 0 .. 3
    BY AppOf, AppFields, SlotType
  <2>2. s.slot # NoSlot => s.slot.epoch = 0 /\ Len(decided) >= 1
    BY <1>1, <2>1 DEF Sound, AppSound
  <2>3. s.slot # NoSlot => \A w \in Vehicle : BatchOf(s.slot.epoch, w)' = BatchOf(s.slot.epoch, w)
    BY <1>1, <1>2, <2>2 DEF BatchOf
  <2>4. AppSound(s, v)'
    BY <1>1, <1>2, <2>1, <2>3 DEF Sound, AppSound
  <2>5. InLineSound(s, v)'
    BY <1>1, <2>1 DEF Sound, InLineSound
  <2>6. ReleasedSound(s, v)'
    <3> SUFFICES ASSUME s.released, s.slot # NoSlot, s.slot.batch > 0, ~s.overdue,
                        NEW w \in Vehicle, BatchOf(s.slot.epoch, w)' = s.slot.batch - 1
                 PROVE  place[w] = "clear" /\ app[w].slot.epoch \in {-1, s.slot.epoch}
      BY <1>1 DEF ReleasedSound
    <3>1. BatchOf(s.slot.epoch, w) = s.slot.batch - 1
      BY <2>3
    <3> QED
      BY <2>1, <3>1 DEF Sound, ReleasedSound
  <2> QED
    BY <2>4, <2>5, <2>6 DEF Sound
<1> QED
  BY <1>4, <1>5 DEF CrossInv

LEMMA Order0Keeps ==
    ASSUME CrossInv, DecideOrder0
    PROVE  CrossInv'
<1>1. PICK s \in Schedules : Decide(Order(0, s))
  BY DEF DecideOrder0
<1> DEFINE d == Order(0, s)
<1>2. decided = <<>> /\ decided' = <<d>>
  BY <1>1 DEF DecideOrder0, Decide
<1>3. s \in [Vehicle -> 0 .. Batches - 1] /\ Gapless(s)
  BY CrossingAssumption
<1>4. d.kind = "ORDER" /\ d.epoch = 0 /\ d.batch = s /\ d \in Decision
  <2>1. s \in [Vehicle -> -1 .. Batches - 1]
    BY <1>3
  <2> QED
    BY <2>1 DEF Order, Decision
<1> HIDE DEF d
<1>5. DecidedSound'
  <2>1. decided' \in Seq(Decision) /\ Len(decided') = 1 /\ decided'[1] = d
    BY <1>2, <1>4
  <2> QED
    BY <1>3, <1>4, <2>1 DEF DecidedSound, BatchOf
<1>6. \A v \in Vehicle : MemberSound(app[v], v)'
  BY <1>2 DEF MemberSound
<1> QED
  BY <1>1, <1>2, <1>4, <1>5, <1>6, DecideKeeps DEF d

LEMMA Cancel0Keeps ==
    ASSUME CrossInv, DecideCancel0
    PROVE  CrossInv'
<1>1. Len(decided) = 1 /\ Decide(Cancel0)
  BY DEF DecideCancel0
<1>2. Cancel0.kind = "CANCEL" /\ Cancel0 \in Decision
  <2>1. [v \in Vehicle |-> -1] \in [Vehicle -> -1 .. Batches - 1]
    BY CrossingAssumption
  <2> QED
    BY <2>1 DEF Cancel0, Decision
<1>3. /\ decided \in Seq(Decision) /\ decided' = Append(decided, Cancel0)
      /\ UNCHANGED <<place, app>>
  BY <1>1 DEF CrossInv, DecidedSound, Decide
<1>4. /\ decided' \in Seq(Decision) /\ Len(decided') = 2
      /\ decided'[1] = decided[1] /\ decided'[2] = Cancel0
  <2>1. 1 \in Nat /\ 1 \in 1 .. 1
    OBVIOUS
  <2> QED
    BY <1>1, <1>2, <1>3, <2>1, Appended
<1>5. DecidedSound'
  BY <1>1, <1>2, <1>4 DEF CrossInv, DecidedSound, BatchOf
<1>6. \A v \in Vehicle : MemberSound(app[v], v)'
  BY <1>4 DEF MemberSound
<1> QED
  BY <1>1, <1>2, <1>5, <1>6, DecideKeeps

LEMMA Order1Keeps ==
    ASSUME CrossInv, DecideOrder1, Complete
    PROVE  CrossInv'
<1>1. PICK s \in [Vehicle -> -1 .. Batches - 1] :
          /\ {v \in Vehicle : s[v] >= 0} = Announced /\ Gapless(s)
          /\ Decide(Order(1, s))
  BY DEF DecideOrder1
<1> DEFINE d == Order(1, s)
<1>2. /\ Len(decided) = 2
      /\ \A v \in Vehicle : s[v] >= 0 <=> app[v].cancel_pending /\ place[v] = "line"
      /\ \A v \in Vehicle : place[v] = "line" => s[v] >= 0
  BY <1>1 DEF DecideOrder1, Announced
<1>3. d.kind = "ORDER" /\ d.epoch = 1 /\ d.batch = s /\ d \in Decision
  BY DEF Order, Decision
<1>4. /\ decided \in Seq(Decision) /\ decided' = Append(decided, d)
      /\ UNCHANGED <<place, app>>
  BY <1>1 DEF CrossInv, DecidedSound, Decide
<1>5. Decide(d)
  BY <1>1
<1> HIDE DEF d
<1>6. /\ decided' \in Seq(Decision) /\ Len(decided') = 3
      /\ decided'[1] = decided[1] /\ decided'[2] = decided[2] /\ decided'[3] = d
  <2>1. 2 \in Nat /\ 1 \in 1 .. 2 /\ 2 \in 1 .. 2
    OBVIOUS
  <2> QED
    BY <1>2, <1>3, <1>4, <2>1, Appended
<1>7. \A v \in Vehicle : BatchOf(1, v)' = s[v] /\ BatchOf(0, v)' = BatchOf(0, v)
  BY <1>3, <1>6 DEF BatchOf
<1>8. DecidedSound'
  BY <1>1, <1>2, <1>3, <1>4, <1>6, <1>7 DEF CrossInv, DecidedSound
<1>9. ASSUME NEW v \in Vehicle PROVE MemberSound(app[v], v)'
  <2> SUFFICES ASSUME s[v] >= 0
               PROVE  /\ app[v].handled = 2 /\ place[v] = "line"
                      /\ app[v].cancel_pending /\ ~app[v].released
    BY <1>4, <1>7 DEF MemberSound
  <2>1. place[v] = "line" /\ app[v].cancel_pending
    BY <1>2
  <2>2. app[v].handled >= 2 /\ app[v].handled <= app[v].queue /\ app[v].queue <= 2
    BY <1>2, <2>1, AppOf DEF Sound, AppSound
  <2>3. app[v].handled \in 0 .. 3 /\ app[v].queue \in 0 .. 3
    BY AppOf, AppFields
  <2>4. ~app[v].released
    BY <2>1, AppOf DEF Sound, InLineSound
  <2> QED
    BY <2>1, <2>2, <2>3, <2>4
<1> QED
  BY <1>2, <1>3, <1>5, <1>8, <1>9, DecideKeeps

-----------------------------------------------------------------------------
(* The theorems *)

LEMMA CrossNext ==
    ASSUME CrossInv, [Next]_vars, Complete
    PROVE  CrossInv'
<1>1. ASSUME NEW v \in Vehicle, AppNext(v) PROVE CrossInv'
  <2>1. PICK s : StepOK(s, v) /\ Step(v, s)
    BY <1>1, AppSteps
  <2>2. wreck' \in Vehicle \cup {Nobody}
    BY <2>1 DEF Step, CrossInv, TypeOK
  <2> QED
    BY <2>1, <2>2, StepKeeps DEF Step, StepOK
<1>2. ASSUME NEW v \in Vehicle, Enter(v) PROVE CrossInv'
  BY <1>2, RoadKeeps DEF Enter, Rolling
<1>3. ASSUME NEW v \in Vehicle, Leave(v) PROVE CrossInv'
  BY <1>3, RoadKeeps DEF Leave
<1>4. ASSUME NEW v \in Vehicle, Crash(v) PROVE CrossInv'
  BY <1>4, CrashKeeps
<1>5. CASE Tow
  <2>1. wreck \in Vehicle
    BY <1>5 DEF Tow, CrossInv, TypeOK
  <2> QED
    BY <1>5, <2>1, RoadKeeps DEF Tow
<1>6. CASE PbftNext
  BY <1>6, Order0Keeps, Cancel0Keeps, Order1Keeps DEF PbftNext
<1>7. CASE UNCHANGED vars
  <2> USE <1>7 DEF vars
  <2>1. TypeOK'
    BY DEF CrossInv, TypeOK
  <2>2. DecidedSound'
    BY DEF CrossInv, DecidedSound, BatchOf
  <2>3. \A v \in Vehicle : Sound(app[v], v)'
    BY DEF CrossInv, Sound, AppSound, InLineSound, MemberSound, ReleasedSound, BatchOf
  <2> QED
    BY <2>1, <2>2, <2>3 DEF CrossInv
<1> QED
  BY <1>1, <1>2, <1>3, <1>4, <1>5, <1>6, <1>7 DEF Next

\* A start is a step of the vehicle's own app.
LEMMA StartsAreFit ==
    ASSUME CrossInv, Next, NEW v \in Vehicle, Starts(v)
    PROVE  /\ ~CancelActive(app'[v])
           /\ app'[v].slot.epoch \notin app'[v].tombstones
           /\ app'[v].slot = NoSlot => ~enableRollback /\ app[v].queue = 0
<1>1. app \in [Vehicle -> App]
  BY DEF CrossInv, TypeOK
<1>2. ASSUME NEW w \in Vehicle, AppNext(w)
      PROVE  StartsFit(app'[v], v)
  <2>1. PICK s : StepOK(s, w) /\ Step(w, s)
    BY <1>2, AppSteps
  <2>2. app' = [app EXCEPT ![w] = s]
    BY <2>1 DEF Step
  <2>3. v = w
    BY <1>1, <2>2 DEF Starts
  <2> QED
    BY <1>1, <2>1, <2>2, <2>3 DEF StepOK
<1>3. ASSUME NEW w \in Vehicle, Enter(w) \/ Leave(w) \/ Crash(w) PROVE FALSE
  <2>1. app'[v].released = app[v].released
    <3>1. CASE Enter(w) \/ Leave(w)
      BY <3>1 DEF Enter, Leave
    <3>2. CASE Crash(w)
      <4>1. app' = [app EXCEPT ![w] = [app[w] EXCEPT !.poll = FALSE]]
        BY <3>2 DEF Crash
      <4>2. app[w] \in App
        BY <1>1
      <4>3. [app[w] EXCEPT !.poll = FALSE].released = app[w].released
        BY <4>2 DEF App
      <4> QED
        BY <1>1, <4>1, <4>3
    <3> QED
      BY <1>3, <3>1, <3>2
  <2> QED
    BY <2>1 DEF Starts
<1>4. CASE Tow \/ PbftNext
  <2>1. app' = app
    BY <1>4 DEF Tow, PbftNext, DecideOrder0, DecideCancel0, DecideOrder1, Decide
  <2> QED
    BY <2>1 DEF Starts
<1> QED
  BY <1>2, <1>3, <1>4 DEF Next, Starts, StartsFit

(* Why batches do not meet: follow the batches down from the one that is   *)
(* in the box too early.                                                   *)
LEMMA SharedBox == CrossInv => BoxIsShared
<1> SUFFICES ASSUME CrossInv, NEW v \in Vehicle, NEW w \in Vehicle,
                    place[v] = "box", place[w] = "box",
                    app[v].slot.epoch = app[w].slot.epoch, app[v].slot.epoch >= 0,
                    app[v].slot.batch < app[w].slot.batch
             PROVE  \E u \in Vehicle :
                        /\ WentEarly(u) /\ app[u].slot.epoch \in {-1, app[v].slot.epoch}
                        /\ BatchOf(app[v].slot.epoch, u)
                               \in (app[v].slot.batch + 1) .. app[w].slot.batch
  BY DEF BoxIsShared
<1> DEFINE e == app[v].slot.epoch
           lo == app[v].slot.batch
           hi == app[w].slot.batch
           Out(u) == place[u] # "line" /\ app[u].slot.epoch \in {-1, e}
           S == {k \in Nat : k > lo /\ k <= hi /\ \E u \in Vehicle : BatchOf(e, u) = k /\ Out(u)}
           Less == {p \in Nat \X Nat : p[1] < p[2]}
<1>1. \A u \in Vehicle : /\ app[u] \in App /\ Sound(app[u], u)
                         /\ app[u].slot.epoch \in {-1, 0, 1}
                         /\ app[u].slot = NoSlot <=> app[u].slot.epoch = -1
                         /\ app[u].slot # NoSlot => app[u].slot.batch \in 0 .. Batches - 1
  BY AppOf, AppFields, SlotType
<1>2. e \in {0, 1} /\ lo \in Nat /\ hi \in Nat /\ lo < hi
  <2>1. Batches \in Nat
    BY CrossingAssumption
  <2> QED
    BY <1>1, <2>1
<1>3. BatchOf(e, v) = lo /\ BatchOf(e, w) = hi
  BY <1>1, <1>2 DEF Sound, AppSound
<1>4. hi \in S
  BY <1>2, <1>3
<1>5. IsWellFoundedOn(Less, Nat)
  BY NatLessThanWellFounded DEF OpToRel
<1>6. PICK k \in S : \A j \in S : <<j, k>> \notin Less
  <2>1. S \subseteq Nat /\ S # {}
    BY <1>4
  <2> HIDE DEF S, Less
  <2> QED
    BY <1>5, <2>1, WFMin
<1>7. PICK u \in Vehicle : BatchOf(e, u) = k /\ Out(u)
  BY <1>6
<1>8. k \in Nat /\ k > lo /\ k <= hi /\ k - 1 \notin S
  <2>1. k \in Nat /\ k > lo /\ k <= hi
    BY <1>6
  <2>2. k - 1 \in Nat /\ k - 1 < k
    BY <1>2, <2>1
  <2>3. <<k - 1, k>> \in Less
    BY <2>1, <2>2
  <2> QED
    BY <1>6, <2>1, <2>3
<1>9. WentEarly(u)
  <2> SUFFICES ASSUME ~WentEarly(u) PROVE FALSE
    OBVIOUS
  <2>1. app[u].slot.epoch = e /\ app[u].slot # NoSlot /\ ~app[u].overdue
    BY <1>1, <1>7 DEF WentEarly
  <2>2. app[u].slot.batch = k /\ app[u].slot.batch > 0
    BY <1>1, <1>2, <1>7, <1>8, <2>1 DEF Sound, AppSound
  <2>3. app[u].released
    BY <1>1, <1>7 DEF Sound, AppSound
  <2>4. \A x \in Vehicle : BatchOf(e, x) = k - 1 => place[x] = "clear" /\ app[x].slot.epoch \in {-1, e}
    BY <1>1, <2>1, <2>2, <2>3 DEF Sound, ReleasedSound
  <2>5. k - 1 # lo
    BY <1>3, <2>4
  <2>6. \E x \in Vehicle : BatchOf(e, x) = k - 1
    <3>1. Gapless(decided[IF e = 0 THEN 1 ELSE 3].batch)
      <4>1. Len(decided) \in Nat
        BY DEF CrossInv, DecidedSound
      <4>2. CASE e = 0
        <5>1. app[v].handled \in 0 .. 3 /\ app[v].queue \in 0 .. 3
          BY <1>1, AppFields
        <5>2. Len(decided) >= 1
          BY <1>1, <4>1, <4>2, <5>1 DEF Sound, AppSound
        <5> QED
          BY <4>2, <5>2 DEF CrossInv, DecidedSound
      <4>3. CASE e = 1
        <5>1. app[v].handled \in 0 .. 3 /\ app[v].queue \in 0 .. 3
          BY <1>1, AppFields
        <5>2. Len(decided) >= 3
          BY <1>1, <4>1, <4>3, <5>1 DEF Sound, AppSound
        <5> QED
          BY <4>3, <5>2 DEF CrossInv, DecidedSound
      <4> QED
        BY <1>2, <4>2, <4>3
    <3> DEFINE b == decided[IF e = 0 THEN 1 ELSE 3].batch
    <3>2. \A x \in Vehicle : BatchOf(e, x) = b[x]
      BY DEF BatchOf
    <3> HIDE DEF b
    <3>3. b[u] = k /\ k > 0
      BY <1>2, <1>7, <1>8, <3>2
    <3>4. PICK x \in Vehicle : b[x] = b[u] - 1
      BY <3>1, <3>3 DEF Gapless, b
    <3> QED
      BY <3>2, <3>3, <3>4
  <2>7. PICK x \in Vehicle : BatchOf(e, x) = k - 1
    BY <2>6
  <2>8. Out(x)
    BY <2>4, <2>7
  <2>9. k - 1 \in Nat /\ k - 1 > lo /\ k - 1 <= hi
    BY <1>2, <1>8, <2>5
  <2> QED
    BY <1>8, <2>7, <2>8, <2>9
<1> QED
  BY <1>2, <1>7, <1>8, <1>9

(* The fields of every vehicle keep their domains, and none has taken more *)
(* decisions than there are (processOrders() counts what it swapped out).  *)
THEOREM TypeCorrect ==
    ASSUME Complete
    PROVE  Spec => []TypeOK
<1>1. Spec => []CrossInv
  BY CrossInit, CrossNext, PTL DEF Spec
<1> QED
  BY <1>1, PTL DEF CrossInv

(* Two batches of one ORDER are in the box together only after somebody    *)
(* between them went without waiting (processOrders() and the poll of the  *)
(* preceding batch), however many vehicles and batches there are.          *)
THEOREM BatchesShareAfterTimeoutOnly ==
    ASSUME Complete
    PROVE  Spec => []BoxIsShared
<1>1. Spec => []CrossInv
  BY CrossInit, CrossNext, PTL DEF Spec
<1> QED
  BY <1>1, SharedBox, PTL

(* Whoever starts knows of no pending CANCEL and holds no tombstoned slot  *)
(* (handleValidCancelJustification(), beginPostCancelDiscovery() and the   *)
(* poll's hold).                                                           *)
THEOREM CancelHoldsTheStart ==
    ASSUME Complete
    PROVE  Spec => NoStartWhileCancelled
<1>1. Spec => []CrossInv
  BY CrossInit, CrossNext, PTL DEF Spec
<1>2. CrossInv /\ [Next]_vars
      => [\A v \in Vehicle : Starts(v) =>
              /\ ~CancelActive(app'[v])
              /\ app'[v].slot.epoch \notin app'[v].tombstones]_vars
  BY StartsAreFit
<1> QED
  BY <1>1, <1>2, PTL DEF Spec, NoStartWhileCancelled

(* A vehicle without a slot starts only where there is no rollback and     *)
(* nothing was handed over to it (the stop-sign and consensus timeouts).   *)
THEOREM NoSlotIsLastResort ==
    ASSUME Complete
    PROVE  Spec => UncoordinatedIsLastResort
<1>1. Spec => []CrossInv
  BY CrossInit, CrossNext, PTL DEF Spec
<1>2. CrossInv /\ [Next]_vars
      => [\A v \in Vehicle : Starts(v) /\ app'[v].slot = NoSlot =>
              ~enableRollback /\ app[v].queue = 0]_vars
  BY StartsAreFit
<1> QED
  BY <1>1, <1>2, PTL DEF Spec, UncoordinatedIsLastResort
=============================================================================
