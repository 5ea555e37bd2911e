-------------------------- MODULE UploadQueueProofs --------------------------
(***************************************************************************)
(* What the upload queue keeps for any number of uploads, workers, parts   *)
(* and attempts.  One predicate of the page, Sound, says of every item and *)
(* every run what the properties rest on; each function of the model that  *)
(* a step of the page is made of takes a sound page to a sound page.  A    *)
(* second one, Staffed, says who waits for whom.                           *)
(***************************************************************************)
EXTENDS UploadQueue, TLAPS, WellFoundedInduction

PageState == [item : [Upload -> Item], run : [Worker -> Run],
              wanted : SUBSET Upload, leaving : SUBSET Upload, foreign : SUBSET Upload]

(* An item holds the original file or none; a recorded one is in the       *)
(* queue; what it knows to be completed is published; it is cancelled or   *)
(* removed only if the user asked (a: asked, p: published).                *)
ItemSound(i, u, kept, a, p) ==
    /\ i.file \in {Original, None}
    /\ kept => i.listed
    /\ i.status = "completed" \/ i.phase = "completed" => u \in p
    /\ i.cancelling # "no" \/ i.removing => u \in a

(* A run has the original file, of an item in the queue or one the user    *)
(* wanted gone; one that creates a transfer has recorded it; one whose     *)
(* answer will find the item paused was asking when the user paused it.    *)
RunSound(r, i, kept, a) ==
    r.pc # "idle" =>
        /\ r.of \in Upload /\ r.file = Original
        /\ r.pc = "recover" => r.try # Attempts
        /\ i[r.of].listed \/ r.of \in a
        /\ r.pc = "create" => r.of \in kept \cup a
        /\ r.pc \in Asking /\ i[r.of].phase = "paused" => r.of \in a

Sound(s, a, p) ==
    /\ s \in PageState /\ s.foreign = {}
    /\ \A u \in Upload : ItemSound(s.item[u], u, u \in s.wanted, a, p)
    /\ \A w \in Worker : RunSound(s.run[w], s.item, s.wanted, a)

(* An item is in the queue, or the browser has been asked to forget it.    *)
Accounted(s, u) == s.item[u].listed \/ u \in s.leaving

(* From s to t: the page stays sound, forgets only what the user wanted    *)
(* gone and tells the browser, and leaves runs that ask the server alone,  *)
(* but for those of W.                                                     *)
Leads(s, t, a, p, W) ==
    /\ Sound(t, a, p)
    /\ s.wanted \subseteq t.wanted \cup a
    /\ \A u \in Upload : Accounted(s, u) => Accounted(t, u)
    /\ \A w \in Worker \ W : s.run[w].pc \in Asking => t.run[w] = s.run[w]

NoneAsks(s, u) == \A w \in Worker : s.run[w].of = u => s.run[w].pc \notin Asking

-----------------------------------------------------------------------------
LEMMA LeastIsMember ==
    ASSUME NEW S, S \subseteq Nat, S # {}
    PROVE  Least(S) \in S
<1> DEFINE R == OpToRel(<, Nat)
<1>1. IsWellFoundedOn(R, Nat)
  BY NatLessThanWellFounded
<1>2. \E x \in S : \A y \in S : ~ (<<y, x>> \in R)
  <2> HIDE DEF R
  <2> QED BY <1>1, WFMin, Zenon
<1>3. PICK x \in S : \A y \in S : ~ (<<y, x>> \in R)
  BY <1>2
<1>4. \A y \in S : x <= y
  <2> SUFFICES ASSUME NEW y \in S PROVE x <= y
    OBVIOUS
  <2>1. <<y, x>> \in R <=> y < x
    <3>1. R = {r \in Nat \X Nat : r[1] < r[2]}
      BY DEF OpToRel
    <3> HIDE DEF R
    <3> QED BY <3>1
  <2> HIDE DEF R
  <2>2. ~(y < x)
    BY <1>3, <2>1
  <2> QED
    BY <2>2
<1> QED
  BY <1>4 DEF Least

LEMMA Fields ==
    ASSUME NEW a, NEW p, NEW s, Sound(s, a, p)
    PROVE  /\ s.item \in [Upload -> Item] /\ s.run \in [Worker -> Run]
           /\ s.wanted \subseteq Upload /\ s.foreign = {}
           /\ \A u \in Upload : s.item[u] \in Item /\ ItemSound(s.item[u], u, u \in s.wanted, a, p)
           /\ \A w \in Worker : s.run[w] \in Run /\ RunSound(s.run[w], s.item, s.wanted, a)
BY DEF Sound, PageState

LEMMA Stays ==
    ASSUME NEW a, NEW p, NEW s, Sound(s, a, p), NEW W
    PROVE  Leads(s, s, a, p, W)
BY DEF Leads

LEMMA Then ==
    ASSUME NEW a, NEW p, NEW W, NEW r, NEW s, NEW t,
           Leads(r, s, a, p, W), Leads(s, t, a, p, W)
    PROVE  Leads(r, t, a, p, W)
BY DEF Leads

LEMMA Wider ==
    ASSUME NEW a, NEW p, NEW W, NEW s, NEW t, Leads(s, t, a, p, {})
    PROVE  Leads(s, t, a, p, W)
BY DEF Leads

(* A run that asks nothing may change at will.                             *)
LEMMA Narrower ==
    ASSUME NEW a, NEW p, NEW w, NEW s, NEW t, Leads(s, t, a, p, {w}),
           s.run[w].pc \notin Asking
    PROVE  Leads(s, t, a, p, {})
BY DEF Leads

LEMMA Grown ==
    ASSUME NEW a, NEW p, NEW b, NEW q, NEW s, Sound(s, a, p), a \subseteq b, p \subseteq q
    PROVE  Sound(s, b, q)
<1>1. ASSUME NEW u \in Upload PROVE ItemSound(s.item[u], u, u \in s.wanted, b, q)
  BY DEF Sound, ItemSound
<1>2. ASSUME NEW w \in Worker PROVE RunSound(s.run[w], s.item, s.wanted, b)
  BY DEF Sound, RunSound
<1> QED
  BY <1>1, <1>2 DEF Sound

-----------------------------------------------------------------------------
(* One field of the page changes.                                          *)
LEMMA SetItem ==
    ASSUME NEW a, NEW p, NEW s, Sound(s, a, p), NEW u \in Upload, NEW i \in Item,
           ItemSound(i, u, u \in s.wanted, a, p),
           s.item[u].listed => i.listed,
           i.phase = "paused" => s.item[u].phase = "paused" \/ u \in a \/ NoneAsks(s, u)
    PROVE  /\ Leads(s, [s EXCEPT !.item[u] = i], a, p, {})
           /\ [s EXCEPT !.item[u] = i].item[u] = i
           /\ [s EXCEPT !.item[u] = i].run = s.run
           /\ [s EXCEPT !.item[u] = i].wanted = s.wanted
<1> DEFINE t == [s EXCEPT !.item[u] = i]
<1>1. /\ t \in PageState /\ t.item = [s.item EXCEPT ![u] = i] /\ t.run = s.run
      /\ t.wanted = s.wanted /\ t.leaving = s.leaving /\ t.foreign = s.foreign /\ t.item[u] = i
  BY DEF Sound, PageState
<1>2. ASSUME NEW v \in Upload PROVE ItemSound(t.item[v], v, v \in t.wanted, a, p)
  BY <1>1 DEF Sound, PageState
<1>3. ASSUME NEW w \in Worker PROVE RunSound(t.run[w], t.item, t.wanted, a)
  <2>1. CASE s.run[w].of = u
    BY <1>1, <2>1 DEF Sound, PageState, RunSound, NoneAsks
  <2>2. CASE s.run[w].of # u
    BY <1>1, <2>2 DEF Sound, PageState, RunSound
  <2> QED BY <2>1, <2>2
<1> HIDE DEF t
<1>4. Sound(t, a, p)
  BY <1>1, <1>2, <1>3 DEF Sound
<1>5. \A v \in Upload : Accounted(s, v) => Accounted(t, v)
  BY <1>1 DEF Accounted, Sound, PageState
<1> QED BY <1>1, <1>4, <1>5 DEF t, Leads

LEMMA SetRun ==
    ASSUME NEW a, NEW p, NEW s, Sound(s, a, p), NEW w \in Worker, NEW r \in Run,
           RunSound(r, s.item, s.wanted, a)
    PROVE  /\ Leads(s, [s EXCEPT !.run[w] = r], a, p, {w})
           /\ [s EXCEPT !.run[w] = r].run[w] = r
           /\ [s EXCEPT !.run[w] = r].item = s.item
           /\ [s EXCEPT !.run[w] = r].wanted = s.wanted
<1> DEFINE t == [s EXCEPT !.run[w] = r]
<1>1. /\ t \in PageState /\ t.run = [s.run EXCEPT ![w] = r] /\ t.item = s.item
      /\ t.wanted = s.wanted /\ t.leaving = s.leaving /\ t.foreign = s.foreign /\ t.run[w] = r
  BY DEF Sound, PageState
<1>2. ASSUME NEW x \in Worker PROVE RunSound(t.run[x], t.item, t.wanted, a)
  BY <1>1 DEF Sound, PageState
<1>3. \A x \in Worker \ {w} : t.run[x] = s.run[x]
  BY <1>1 DEF Sound, PageState
<1> HIDE DEF t
<1>4. Sound(t, a, p)
  BY <1>1, <1>2 DEF Sound
<1> QED BY <1>1, <1>3, <1>4 DEF t, Leads, Accounted

LEMMA SetRecorded ==
    ASSUME NEW a, NEW p, NEW s, Sound(s, a, p), NEW u \in Upload, s.item[u].listed
    PROVE  /\ Leads(s, Recorded(s, u), a, p, {})
           /\ Recorded(s, u).item = s.item /\ Recorded(s, u).run = s.run
           /\ Recorded(s, u).wanted = s.wanted \cup {u}
<1> DEFINE t == Recorded(s, u)
<1>1. /\ t \in PageState /\ t.run = s.run /\ t.item = s.item
      /\ t.wanted = s.wanted \cup {u} /\ t.leaving = s.leaving /\ t.foreign = s.foreign
  BY DEF Sound, PageState, Recorded
<1>2. ASSUME NEW v \in Upload PROVE ItemSound(t.item[v], v, v \in t.wanted, a, p)
  BY <1>1 DEF Sound, ItemSound
<1>3. ASSUME NEW w \in Worker PROVE RunSound(t.run[w], t.item, t.wanted, a)
  BY <1>1 DEF Sound, RunSound
<1> HIDE DEF t
<1>4. Sound(t, a, p)
  BY <1>1, <1>2, <1>3 DEF Sound
<1> QED BY <1>1, <1>4 DEF t, Leads, Accounted

LEMMA UpdateLeads ==
    ASSUME NEW a, NEW p, NEW s, Sound(s, a, p), NEW u \in Upload, NEW i \in Item,
           ItemSound(i, u, u \in s.wanted, a, p),
           i.listed = s.item[u].listed,
           i.phase = "paused" => s.item[u].phase = "paused" \/ u \in a \/ NoneAsks(s, u)
    PROVE  /\ Leads(s, Update(s, u, i), a, p, {})
           /\ Update(s, u, i).run = s.run
           /\ Update(s, u, i).item[u] = IF s.item[u].listed THEN i ELSE s.item[u]
           /\ i.sha256 /\ i.listed => u \in Update(s, u, i).wanted
<1> DEFINE t == [s EXCEPT !.item[u] = i]
<1>1. Leads(s, t, a, p, {}) /\ t.item[u] = i /\ t.run = s.run /\ t.wanted = s.wanted
  BY SetItem
<1> HIDE DEF t
<1>2. CASE ~s.item[u].listed
  <2>1. Update(s, u, i) = s
    BY <1>2 DEF Update
  <2> QED
    BY <1>2, <2>1, Stays
<1>3. CASE s.item[u].listed /\ ~i.sha256
  <2>1. Update(s, u, i) = t
    BY <1>3 DEF Update, t
  <2> QED
    BY <1>1, <1>3, <2>1
<1>4. CASE s.item[u].listed /\ i.sha256
  <2>1. Update(s, u, i) = Recorded(t, u)
    BY <1>4 DEF Update, t
  <2>2. Sound(t, a, p) /\ t.item[u].listed
    <3>1. i.listed
      BY <1>4
    <3> QED
      BY <1>1, <3>1 DEF Leads
  <2>3. /\ Leads(t, Recorded(t, u), a, p, {})
        /\ Recorded(t, u).item = t.item /\ Recorded(t, u).run = t.run
        /\ Recorded(t, u).wanted = t.wanted \cup {u}
    BY <1>1, <1>4, <2>2, SetRecorded
  <2>4. Leads(s, Recorded(t, u), a, p, {})
    BY <1>1, <2>3, Then
  <2> QED
    BY <1>1, <1>4, <2>1, <2>3, <2>4
<1> QED
  BY <1>2, <1>3, <1>4

LEMMA WithPhaseLeads ==
    ASSUME NEW a, NEW p, NEW s, Sound(s, a, p), NEW u \in Upload, NEW phase \in Phase,
           phase = "completed" => u \in p,
           phase = "paused" => u \in a \/ NoneAsks(s, u)
    PROVE  /\ Leads(s, WithPhase(s, u, phase), a, p, {})
           /\ WithPhase(s, u, phase).run = s.run
           /\ s.item[u].listed => WithPhase(s, u, phase).item[u].phase = phase
           /\ WithPhase(s, u, phase).item[u].listed = s.item[u].listed
<1> DEFINE i == [s.item[u] EXCEPT !.phase = phase]
<1>1. /\ i \in Item /\ i.listed = s.item[u].listed /\ i.phase = phase
      /\ ItemSound(i, u, u \in s.wanted, a, p)
  BY Fields DEF Item, ItemSound
<1>2. WithPhase(s, u, phase) = Update(s, u, i)
  BY DEF WithPhase
<1> HIDE DEF i
<1>3. /\ Leads(s, Update(s, u, i), a, p, {})
      /\ Update(s, u, i).run = s.run
      /\ Update(s, u, i).item[u] = IF s.item[u].listed THEN i ELSE s.item[u]
  BY <1>1, UpdateLeads
<1> QED
  BY <1>1, <1>2, <1>3

LEMMA WithStatusLeads ==
    ASSUME NEW a, NEW p, NEW s, Sound(s, a, p), NEW u \in Upload, NEW state \in State,
           state = "completed" => u \in p
    PROVE  /\ Leads(s, WithStatus(s, u, state), a, p, {})
           /\ WithStatus(s, u, state).run = s.run
<1> DEFINE i == [s.item[u] EXCEPT !.status = state]
<1>1. /\ i \in Item /\ i.listed = s.item[u].listed /\ i.phase = s.item[u].phase
      /\ ItemSound(i, u, u \in s.wanted, a, p)
  BY Fields DEF Item, ItemSound
<1>2. WithStatus(s, u, state) = Update(s, u, i)
  BY DEF WithStatus
<1> HIDE DEF i
<1>3. /\ Leads(s, Update(s, u, i), a, p, {})
      /\ Update(s, u, i).run = s.run
      /\ Update(s, u, i).item[u] = IF s.item[u].listed THEN i ELSE s.item[u]
  BY <1>1, UpdateLeads
<1> QED
  BY <1>1, <1>2, <1>3

LEMMA ClosesLeads ==
    ASSUME NEW a, NEW p, NEW s, Sound(s, a, p), NEW u \in Upload, NEW state \in Terminal,
           state = "completed" => u \in p
    PROVE  /\ Leads(s, Closes(s, u, state), a, p, {})
           /\ Closes(s, u, state).run = s.run
<1> DEFINE i == [s.item[u] EXCEPT !.status = state, !.phase = state]
<1>1. /\ i \in Item /\ i.listed = s.item[u].listed /\ i.phase # "paused"
      /\ ItemSound(i, u, u \in s.wanted, a, p)
  <2>1. s.item[u] \in Item /\ ItemSound(s.item[u], u, u \in s.wanted, a, p)
    BY Fields
  <2>2. state \in Phase /\ state \in State \cup {None} /\ state # "paused"
    BY DEF State, Terminal, Phase
  <2>3. i \in Item /\ i.listed = s.item[u].listed /\ i.phase = state
    BY <2>1, <2>2 DEF Item
  <2>4. ItemSound(i, u, u \in s.wanted, a, p)
    BY <2>1 DEF Item, ItemSound
  <2> QED
    BY <2>2, <2>3, <2>4
<1>2. Closes(s, u, state) = Update(s, u, i)
  BY DEF Closes
<1> HIDE DEF i
<1>3. /\ Leads(s, Update(s, u, i), a, p, {})
      /\ Update(s, u, i).run = s.run
      /\ Update(s, u, i).item[u] = IF s.item[u].listed THEN i ELSE s.item[u]
  BY <1>1, UpdateLeads
<1> QED
  BY <1>1, <1>2, <1>3

LEMMA LetGoLeads ==
    ASSUME NEW a, NEW p, NEW s, Sound(s, a, p), NEW u \in Upload, NEW w \in Worker
    PROVE  Leads(s, LetGo(s, u, w), a, p, {}) /\ LetGo(s, u, w).run = s.run
<1> DEFINE i == [s.item[u] EXCEPT !.controller = IF @ = w THEN Nobody ELSE @]
<1>1. LetGo(s, u, w) = [s EXCEPT !.item[u] = i]
  BY DEF LetGo, Sound, PageState
<1>2. /\ i \in Item /\ i.listed = s.item[u].listed /\ i.phase = s.item[u].phase
      /\ ItemSound(i, u, u \in s.wanted, a, p)
  BY Fields DEF Item, ItemSound
<1> HIDE DEF i
<1> QED
  BY <1>1, <1>2, SetItem

-----------------------------------------------------------------------------
(* The steps of a run: what each leaves of a sound page.                   *)
LEMMA AsksLeads ==
    ASSUME NEW a, NEW p, NEW s, Sound(s, a, p), NEW w \in Worker, s.run[w].pc # "idle"
    PROVE  Leads(s, Asks(s, s.run[w].of, w), a, p, {w})
<1> DEFINE u == s.run[w].of
           i == [s.item[u] EXCEPT !.sha256 = TRUE]
           m == Update(s, u, i)
           t == WithPhase(m, u, "uploading")
           q == IF s.item[u].status = "active" THEN "get" ELSE "create"
           r == [t.run[w] EXCEPT !.pc = q]
           v == [t EXCEPT !.run[w] = r]
           j == [v.item[u] EXCEPT !.resolving = IF s.item[u].status = "active" THEN @ ELSE w]
<1>1. /\ u \in Upload /\ s.run[w] \in Run /\ s.item[u] \in Item
      /\ RunSound(s.run[w], s.item, s.wanted, a) /\ ItemSound(s.item[u], u, u \in s.wanted, a, p)
  BY Fields DEF RunSound
<1>2. /\ i \in Item /\ i.listed = s.item[u].listed /\ i.phase = s.item[u].phase /\ i.sha256
      /\ ItemSound(i, u, u \in s.wanted, a, p)
  BY <1>1, ZenonT(40) DEF Item, ItemSound
<1>3. /\ Leads(s, m, a, p, {}) /\ m.run = s.run
      /\ i.listed => u \in m.wanted
      /\ m.item[u].listed = s.item[u].listed
  <2> HIDE DEF i, u
  <2> QED
    BY <1>1, <1>2, UpdateLeads
<1>4. /\ Leads(m, t, a, p, {}) /\ t.run = m.run
      /\ m.item[u].listed => t.item[u].phase = "uploading"
      /\ t.item[u].listed = m.item[u].listed
  <2> HIDE DEF m, u
  <2>1. Sound(m, a, p) /\ "uploading" \in Phase
    BY <1>3 DEF Leads, Phase
  <2> QED
    BY <1>1, <2>1, WithPhaseLeads
<1>5. Leads(s, t, a, p, {}) /\ Sound(t, a, p) /\ t.run[w] = s.run[w]
  BY <1>3, <1>4, Then DEF Leads
<1>6. r \in Run /\ r.pc = q /\ r.of = u
  BY <1>1, <1>5 DEF Run, Asking
<1>7. RunSound(r, t.item, t.wanted, a)
  <2>1. s.item[u].listed => u \in t.wanted \cup a
    BY <1>2, <1>3, <1>4 DEF Leads
  <2>2. r.file = Original
    BY <1>1, <1>5 DEF RunSound, Run
  <2>3. t.item[u].listed \/ u \in a
    <3>1. s.item[u].listed \/ u \in a
      BY <1>1 DEF RunSound
    <3> QED
      BY <1>3, <1>4, <3>1
  <2>4. u \in t.wanted \cup a
    BY <1>1, <2>1 DEF RunSound
  <2>5. t.item[u].phase = "paused" => u \in a
    <3>1. s.item[u].listed \/ u \in a
      BY <1>1 DEF RunSound
    <3> HIDE DEF t, m, u
    <3>2. CASE s.item[u].listed
      <4>1. m.item[u].listed
        BY <1>3, <3>2
      <4>2. t.item[u].phase = "uploading"
        BY <1>4, <4>1
      <4> QED
        BY <4>2
    <3> QED
      BY <3>1, <3>2
  <2>6. r.pc # "recover"
    <3>1. q # "recover"
      OBVIOUS
    <3> HIDE DEF r, q
    <3> QED
      BY <1>6, <3>1
  <2> HIDE DEF r, t, u
  <2> QED
    BY <1>1, <1>6, <2>2, <2>3, <2>4, <2>5, <2>6 DEF RunSound
<1>8. /\ Leads(t, v, a, p, {w}) /\ v.run[w] = r
      /\ v.item = t.item /\ v.wanted = t.wanted
  <2> HIDE DEF r, t
  <2> QED
    BY <1>5, <1>6, <1>7, SetRun
<1>9. Sound(v, a, p) /\ v.item[u] \in Item /\ ItemSound(v.item[u], u, u \in v.wanted, a, p)
  <2>1. Sound(v, a, p)
    BY <1>8 DEF Leads
  <2> HIDE DEF v, u
  <2> QED
    BY <1>1, <2>1, Fields
<1>10. /\ j \in Item /\ j.listed = v.item[u].listed /\ j.phase = v.item[u].phase
       /\ ItemSound(j, u, u \in v.wanted, a, p)
  <2> HIDE DEF v, u
  <2> QED
    BY <1>9 DEF Item, ItemSound
<1>11. Leads(v, [v EXCEPT !.item[u] = j], a, p, {})
  <2> HIDE DEF v, u, j
  <2> QED
    BY <1>1, <1>9, <1>10, SetItem
<1>12. Asks(s, u, w) = [v EXCEPT !.item[u] = j]
  <2>1. Asks(s, u, w) = [t EXCEPT !.run[w].pc = q,
                                  !.item[u].resolving = IF s.item[u].status = "active" THEN @ ELSE w]
    BY DEF Asks
  <2>2. t \in PageState
    BY <1>5 DEF Sound
  <2> HIDE DEF t, q, u
  <2> QED
    BY <2>1, <2>2, <1>1 DEF PageState
<1>13. Leads(s, [v EXCEPT !.item[u] = j], a, p, {w})
  <2> HIDE DEF v, u, j, t
  <2> QED
    BY <1>5, <1>8, <1>11, Then, Wider
<1> QED
  BY <1>12, <1>13

LEMMA StartsLeads ==
    ASSUME NEW a, NEW p, NEW s, Sound(s, a, p), NEW u \in Ready(s), NEW w \in Free(s)
    PROVE  Leads(s, Starts(s, u, w), a, p, {})
<1> DEFINE r == [Idle EXCEPT !.of = u, !.file = s.item[u].file, !.pc = "hash"]
           t == [s EXCEPT !.run[w] = r]
<1>1. /\ u \in Upload /\ w \in Worker /\ s.run[w].pc = "idle"
      /\ s.item[u].listed /\ s.item[u].file # None
      /\ s.item[u] \in Item /\ ItemSound(s.item[u], u, u \in s.wanted, a, p)
  BY Fields DEF Ready, Free
<1>2. r \in Run /\ r.pc = "hash" /\ r.of = u /\ r.file = Original
  <2>1. s.item[u].file = Original
    BY <1>1 DEF ItemSound
  <2>2. Original \in Content /\ 0 \in Part /\ 1 \in 1..Attempts
    BY QueueAssumption DEF Part
  <2> QED
    BY <1>1, <2>1, <2>2 DEF Run, Idle
<1>3. RunSound(r, s.item, s.wanted, a)
  <2> HIDE DEF r
  <2> QED
    BY <1>1, <1>2 DEF RunSound, Asking
<1>4. Leads(s, t, a, p, {w}) /\ t.run[w] = r /\ Sound(t, a, p) /\ t.item = s.item
  <2> HIDE DEF r
  <2> QED
    BY <1>1, <1>2, <1>3, SetRun DEF Leads
<1>5. Leads(t, Starts(s, u, w), a, p, {w})
  <2> HIDE DEF r
  <2>1. CASE s.item[u].sha256
    <3>1. Starts(s, u, w) = Asks(t, t.run[w].of, w)
      BY <1>2, <1>4, <2>1 DEF Starts, r
    <3> HIDE DEF t
    <3> QED
      BY <1>1, <1>2, <1>4, <3>1, AsksLeads
  <2>2. CASE ~s.item[u].sha256
    <3>1. Starts(s, u, w) = WithPhase(t, u, "hashing")
      BY <2>2 DEF Starts, r
    <3>2. "hashing" \in Phase
      BY DEF Phase
    <3> HIDE DEF t
    <3>3. Leads(t, WithPhase(t, u, "hashing"), a, p, {})
      BY <1>1, <1>4, <3>2, WithPhaseLeads
    <3> QED
      BY <3>1, <3>3, Wider
  <2> QED
    BY <2>1, <2>2
<1> HIDE DEF t
<1>6. Leads(s, Starts(s, u, w), a, p, {w})
  BY <1>4, <1>5, Then
<1>7. s.run[w].pc \notin Asking
  BY <1>1 DEF Asking
<1> QED
  BY <1>6, <1>7, Narrower

LEMMA PumpLeads ==
    ASSUME NEW a, NEW p, NEW s, Sound(s, a, p)
    PROVE  Leads(s, Pump(s), a, p, {})
<1>1. CASE Ready(s) = {} \/ Free(s) = {}
  BY <1>1, Stays DEF Pump
<1>2. CASE Ready(s) # {} /\ Free(s) # {}
  <2>1. Ready(s) \subseteq Nat /\ Free(s) \subseteq Nat
    BY DEF Ready, Free, Upload, Worker
  <2>2. Least(Ready(s)) \in Ready(s) /\ Least(Free(s)) \in Free(s)
    BY <1>2, <2>1, LeastIsMember
  <2> QED
    BY <1>2, <2>2, StartsLeads DEF Pump
<1> QED
  BY <1>1, <1>2

LEMMA EndsLeads ==
    ASSUME NEW a, NEW p, NEW s, Sound(s, a, p), NEW w \in Worker
    PROVE  Leads(s, Ends(s, w), a, p, {w})
<1> DEFINE t == [s EXCEPT !.run[w] = Idle]
<1>1. Idle \in Run /\ RunSound(Idle, s.item, s.wanted, a)
  <2>1. 0 \in Part /\ 1 \in 1..Attempts
    BY QueueAssumption DEF Part
  <2> QED
    BY <2>1 DEF Idle, Run, RunSound
<1>2. Leads(s, t, a, p, {w}) /\ Sound(t, a, p)
  BY <1>1, SetRun DEF Leads
<1>3. Ends(s, w) = Pump(t)
  BY DEF Ends
<1> HIDE DEF t
<1>4. Leads(t, Pump(t), a, p, {w})
  BY <1>2, PumpLeads, Wider
<1> QED
  BY <1>2, <1>3, <1>4, Then

LEMMA FailsLeads ==
    ASSUME NEW a, NEW p, NEW s, Sound(s, a, p), NEW w \in Worker, s.run[w].pc # "idle"
    PROVE  Leads(s, Fails(s, w), a, p, {w})
<1> DEFINE u == s.run[w].of
           t == IF s.item[u].phase \in Stopped THEN s ELSE WithPhase(s, u, "failed")
<1>1. u \in Upload /\ "failed" \in Phase
  BY Fields DEF RunSound, Phase
<1>2. Leads(s, t, a, p, {w})
  <2> HIDE DEF u
  <2>1. Leads(s, WithPhase(s, u, "failed"), a, p, {w})
    BY <1>1, WithPhaseLeads, Wider
  <2> QED
    BY <2>1, Stays
<1>3. Fails(s, w) = Ends(t, w)
  BY DEF Fails
<1> HIDE DEF t
<1>4. Leads(t, Ends(t, w), a, p, {w})
  BY <1>2, EndsLeads DEF Leads
<1> QED
  BY <1>2, <1>3, <1>4, Then

(* What a run becomes that stays with its item and asks nothing.           *)
LEMMA RunTurns ==
    ASSUME NEW a, NEW p, NEW s, Sound(s, a, p), NEW w \in Worker, s.run[w].pc # "idle",
           NEW r \in Run, r.of = s.run[w].of, r.file = s.run[w].file,
           r.pc \notin Asking, r.pc = "recover" => r.try # Attempts
    PROVE  /\ Leads(s, [s EXCEPT !.run[w] = r], a, p, {w})
           /\ [s EXCEPT !.run[w] = r].run[w] = r
           /\ [s EXCEPT !.run[w] = r].item = s.item
<1>1. RunSound(s.run[w], s.item, s.wanted, a)
  BY Fields
<1>2. RunSound(r, s.item, s.wanted, a)
  BY <1>1 DEF RunSound, Asking
<1> QED
  BY <1>2, SetRun

LEMMA PutsLeads ==
    ASSUME NEW a, NEW p, NEW s, Sound(s, a, p), NEW w \in Worker, s.run[w].pc # "idle"
    PROVE  Leads(s, Puts(s, w), a, p, {w})
<1> DEFINE u == s.run[w].of
           r == [s.run[w] EXCEPT !.pc = "put"]
           t == [s EXCEPT !.run[w] = r]
           i == [t.item[u] EXCEPT !.controller = w]
<1>1. /\ u \in Upload /\ s.run[w] \in Run /\ s.run[w].file = Original
  BY Fields DEF RunSound
<1>2. r \in Run /\ r.of = s.run[w].of /\ r.file = s.run[w].file /\ r.pc = "put" /\ "put" \notin Asking
  BY <1>1 DEF Run, Asking
<1>3. Leads(s, t, a, p, {w}) /\ Sound(t, a, p) /\ t.item = s.item
  <2> HIDE DEF r
  <2> QED
    BY <1>1, <1>2, RunTurns DEF Leads
<1>4. /\ i \in Item /\ i.listed = t.item[u].listed /\ i.phase = t.item[u].phase
      /\ ItemSound(i, u, u \in t.wanted, a, p)
  <2> HIDE DEF t, u
  <2>1. t.item[u] \in Item /\ ItemSound(t.item[u], u, u \in t.wanted, a, p)
    BY <1>1, <1>3, Fields
  <2> QED
    BY <2>1 DEF Item, ItemSound
<1>5. Leads(t, [t EXCEPT !.item[u] = i], a, p, {w})
  <2> HIDE DEF t, u, i
  <2> QED
    BY <1>1, <1>3, <1>4, SetItem, Wider
<1>6. Puts(s, w) = [t EXCEPT !.item[u] = i]
  <2>1. s \in PageState
    BY DEF Sound
  <2> QED
    BY <1>1, <2>1 DEF Puts, PageState
<1> HIDE DEF t, u, i
<1> QED
  BY <1>3, <1>5, <1>6, Then

LEMMA GivenUpLeads ==
    ASSUME NEW a, NEW p, NEW s, Sound(s, a, p), NEW w \in Worker, s.run[w].pc # "idle"
    PROVE  Leads(s, GivenUp(s, w), a, p, {w})
<1> DEFINE u == s.run[w].of
           t == LetGo(s, u, w)
           r == [s.run[w] EXCEPT !.pc = "recover"]
<1>1. u \in Upload /\ s.run[w] \in Run
  BY Fields DEF RunSound
<1>2. CASE s.item[u].phase \in Stopped \/ s.run[w].try = Attempts
  <2>1. GivenUp(s, w) = Fails(t, w)
    BY <1>2 DEF GivenUp
  <2>2. Leads(s, t, a, p, {w}) /\ Sound(t, a, p) /\ t.run = s.run
    <3> HIDE DEF u
    <3> QED
      BY <1>1, LetGoLeads, Wider DEF Leads
  <2> HIDE DEF t
  <2>3. Leads(t, Fails(t, w), a, p, {w})
    BY <2>2, FailsLeads
  <2> QED
    BY <2>1, <2>2, <2>3, Then
<1>3. CASE ~(s.item[u].phase \in Stopped \/ s.run[w].try = Attempts)
  <2>1. GivenUp(s, w) = [s EXCEPT !.run[w] = r]
    <3>1. s \in PageState
      BY DEF Sound
    <3> QED
      BY <1>3, <3>1 DEF GivenUp, PageState
  <2>2. /\ r \in Run /\ r.of = s.run[w].of /\ r.file = s.run[w].file
        /\ r.pc \notin Asking /\ r.try # Attempts
    BY <1>1, <1>3 DEF Run, Asking
  <2> HIDE DEF r
  <2> QED
    BY <2>1, <2>2, RunTurns
<1> QED
  BY <1>2, <1>3

LEMMA FromPartLeads ==
    ASSUME NEW a, NEW p, NEW s, Sound(s, a, p), NEW w \in Worker, s.run[w].pc # "idle",
           NEW n \in Nat
    PROVE  Leads(s, FromPart(s, w, n), a, p, {w})
<1> DEFINE missing == {q \in Part : q >= n} \ s.run[w].got
<1>1. s \in PageState /\ s.run[w] \in Run
  BY Fields DEF Sound
<1>2. CASE n \in Part /\ s.item[s.run[w].of].phase \in Stopped
  BY <1>2, EndsLeads DEF FromPart
<1>3. CASE ~(n \in Part /\ s.item[s.run[w].of].phase \in Stopped) /\ missing = {}
  <2> DEFINE r == [Idle EXCEPT !.pc = "complete", !.of = s.run[w].of, !.file = s.run[w].file]
  <2>1. FromPart(s, w, n) = [s EXCEPT !.run[w] = r]
    BY <1>3 DEF FromPart
  <2>2. /\ r \in Run /\ r.of = s.run[w].of /\ r.file = s.run[w].file /\ r.pc = "complete"
        /\ r.pc \notin Asking
    <3>1. 0 \in Part /\ 1 \in 1..Attempts
      BY QueueAssumption DEF Part
    <3> QED
      BY <1>1, <3>1 DEF Run, Idle, Asking
  <2> HIDE DEF r
  <2> QED
    BY <2>1, <2>2, RunTurns
<1>4. CASE ~(n \in Part /\ s.item[s.run[w].of].phase \in Stopped) /\ missing # {}
  <2> DEFINE q == Least(missing)
             r == [s.run[w] EXCEPT !.pc = "slice", !.part = q, !.try = 1]
  <2>1. q \in Part
    <3>1. missing \subseteq Nat /\ missing \subseteq Part
      BY DEF Part
    <3> HIDE DEF missing
    <3> QED
      BY <1>4, <3>1, LeastIsMember
  <2>2. FromPart(s, w, n) = [s EXCEPT !.run[w] = r]
    <3> HIDE DEF q
    <3>1. FromPart(s, w, n) = [s EXCEPT !.run[w].pc = "slice", !.run[w].part = q, !.run[w].try = 1]
      BY <1>4 DEF FromPart, q
    <3> QED
      BY <1>1, <3>1, ZenonT(40) DEF PageState, Run
  <2>3. /\ r \in Run /\ r.of = s.run[w].of /\ r.file = s.run[w].file /\ r.pc = "slice"
        /\ r.pc \notin Asking
    <3> HIDE DEF q
    <3>1. 1 \in 1..Attempts
      BY QueueAssumption
    <3> QED
      BY <1>1, <2>1, <3>1 DEF Run, Asking
  <2> HIDE DEF r
  <2> QED
    BY <2>2, <2>3, RunTurns
<1> QED
  BY <1>2, <1>3, <1>4

LEMMA SentLeads ==
    ASSUME NEW a, NEW p, NEW s, Sound(s, a, p), NEW w \in Worker, s.run[w].pc # "idle",
           s.run[w].pc \notin Asking, s.run[w].pc = "recover" => s.run[w].try # Attempts
    PROVE  Leads(s, Sent(s, w), a, p, {w})
<1> DEFINE u == s.run[w].of
           n == s.run[w].part
           t == LetGo(s, u, w)
           r == [s.run[w] EXCEPT !.got = @ \cup {n}]
           v == [t EXCEPT !.run[w] = r]
<1>1. u \in Upload /\ s.run[w] \in Run /\ n \in Part /\ n + 1 \in Nat
  BY Fields DEF RunSound, Run, Part
<1>2. Leads(s, t, a, p, {w}) /\ Sound(t, a, p) /\ t.run = s.run
  <2> HIDE DEF u
  <2> QED
    BY <1>1, LetGoLeads, Wider DEF Leads
<1>3. r \in Run /\ r.of = u /\ r.file = s.run[w].file /\ r.pc = s.run[w].pc /\ r.try = s.run[w].try
  BY <1>1 DEF Run
<1>4. Leads(t, v, a, p, {w}) /\ Sound(v, a, p) /\ v.run[w] = r
  <2> HIDE DEF r, t
  <2> QED
    BY <1>2, <1>3, RunTurns DEF Leads
<1>5. Sent(s, w) = FromPart(v, w, n + 1)
  <2>1. t \in PageState
    BY <1>2 DEF Sound
  <2>2. Sent(s, w) = FromPart([t EXCEPT !.run[w].got = @ \cup {n}], w, n + 1)
    BY DEF Sent
  <2>3. [t EXCEPT !.run[w].got = @ \cup {n}] = v
    <3> HIDE DEF t, n
    <3> QED
      BY <1>2, <2>1 DEF PageState
  <2> QED
    BY <2>2, <2>3
<1>6. Leads(v, FromPart(v, w, n + 1), a, p, {w})
  <2> HIDE DEF v, n, r
  <2> QED
    BY <1>1, <1>3, <1>4, FromPartLeads
<1> HIDE DEF v, t, n
<1> QED
  BY <1>2, <1>4, <1>5, <1>6, Then

-----------------------------------------------------------------------------
(* The end of an item and the steps of a cancellation; the user has asked  *)
(* for it.                                                                 *)
LEMMA AbortLeads ==
    ASSUME NEW a, NEW p, NEW s, Sound(s, a, p), NEW u \in Upload
    PROVE  Leads(s, Abort(s, u), a, p, {})
<1> DEFINE w == s.item[u].controller
<1>1. w \in Worker \cup {Nobody}
  BY Fields DEF Item
<1>2. CASE w # Nobody /\ s.run[w].pc = "put"
  <2>1. Abort(s, u) = GivenUp(s, w)
    BY <1>2 DEF Abort
  <2>2. s.run[w].pc # "idle" /\ s.run[w].pc \notin Asking /\ w \in Worker
    BY <1>1, <1>2 DEF Asking
  <2> HIDE DEF w
  <2> QED
    BY <2>1, <2>2, GivenUpLeads, Narrower
<1>3. CASE ~(w # Nobody /\ s.run[w].pc = "put")
  <2>1. Abort(s, u) = s
    BY <1>3 DEF Abort
  <2> QED
    BY <2>1, Stays
<1> QED
  BY <1>2, <1>3

LEMMA LeavesLeads ==
    ASSUME NEW a, NEW p, NEW s, Sound(s, a, p), NEW u \in Upload, u \in a
    PROVE  Leads(s, Leaves(s, u), a, p, {})
<1> DEFINE i == [s.item[u] EXCEPT !.listed = FALSE]
           t == [Forgotten(s, u) EXCEPT !.item[u].listed = FALSE]
<1>1. s \in PageState /\ s.item[u] \in Item
  BY Fields DEF Sound
<1>2. i \in Item
  BY <1>1 DEF Item
<1>3. /\ t \in PageState /\ t.item = [s.item EXCEPT ![u] = i] /\ t.run = s.run
      /\ t.wanted = s.wanted \ {u} /\ t.leaving = s.leaving \cup {u} /\ t.foreign = s.foreign
  <2>1. t = [s EXCEPT !.item[u].listed = FALSE, !.wanted = @ \ {u}, !.leaving = @ \cup {u}]
    BY <1>1 DEF Forgotten, PageState
  <2>2. /\ t.item = [s.item EXCEPT ![u] = i] /\ t.run = s.run
        /\ t.wanted = s.wanted \ {u} /\ t.leaving = s.leaving \cup {u} /\ t.foreign = s.foreign
    <3> HIDE DEF t
    <3> QED
      BY <1>1, <2>1 DEF PageState
  <2>3. t \in PageState
    <3> HIDE DEF i
    <3>1. [s EXCEPT !.item[u].listed = FALSE, !.wanted = @ \ {u}, !.leaving = @ \cup {u}] \in PageState
      BY <1>1, <1>2 DEF PageState, i
    <3> HIDE DEF t
    <3> QED
      BY <2>1, <3>1
  <2> QED
    BY <2>2, <2>3
<1>4. ASSUME NEW v \in Upload PROVE ItemSound(t.item[v], v, v \in t.wanted, a, p)
  <2>1. ItemSound(s.item[v], v, v \in s.wanted, a, p)
    BY Fields
  <2>2. CASE v = u
    <3>1. t.item[u] = i /\ u \notin t.wanted
      BY <1>1, <1>3 DEF PageState
    <3>2. ItemSound(i, u, u \in t.wanted, a, p)
      <4> HIDE DEF t
      <4> QED
        BY <1>1, <2>1, <2>2, <3>1 DEF ItemSound, Item
    <3> HIDE DEF t, i
    <3> QED
      BY <2>2, <3>1, <3>2
  <2>3. CASE v # u
    <3>1. t.item[v] = s.item[v] /\ (v \in t.wanted <=> v \in s.wanted)
      BY <1>1, <1>3, <2>3 DEF PageState
    <3> HIDE DEF t
    <3> QED
      BY <2>1, <3>1 DEF ItemSound
  <2> QED
    BY <2>2, <2>3
<1>5. ASSUME NEW w \in Worker PROVE RunSound(t.run[w], t.item, t.wanted, a)
  <2>1. RunSound(s.run[w], s.item, s.wanted, a)
    BY Fields
  <2> HIDE DEF t
  <2>2. ASSUME NEW v \in Upload, v # u PROVE t.item[v] = s.item[v]
    BY <1>1, <1>3, <2>2 DEF PageState
  <2> QED
    BY <1>3, <2>1, <2>2 DEF RunSound
<1> HIDE DEF t
<1>6. Leads(s, t, a, p, {}) /\ Sound(t, a, p)
  <2>1. \A v \in Upload : Accounted(s, v) => Accounted(t, v)
    BY <1>1, <1>3 DEF Accounted, PageState
  <2> QED
    BY <1>3, <1>4, <1>5, <2>1 DEF Sound, Leads
<1>7. Leaves(s, u) = Abort(t, u)
  BY DEF Leaves, t
<1> QED
  BY <1>6, <1>7, AbortLeads, Then

LEMMA CancelEndsLeads ==
    ASSUME NEW a, NEW p, NEW s, Sound(s, a, p), NEW u \in Upload, u \in a
    PROVE  Leads(s, CancelEnds(s, u), a, p, {})
<1> DEFINE i == [s.item[u] EXCEPT !.cancelling = "no", !.awaited = Nobody, !.removing = FALSE]
           t == [s EXCEPT !.item[u].cancelling = "no", !.item[u].awaited = Nobody, !.item[u].removing = FALSE]
           r == IF Waits(t, u) = {} THEN t ELSE Ends(t, Least(Waits(t, u)))
<1>1. s \in PageState /\ s.item[u] \in Item /\ ItemSound(s.item[u], u, u \in s.wanted, a, p)
  BY Fields DEF Sound
<1>2. /\ i \in Item /\ i.listed = s.item[u].listed /\ i.phase = s.item[u].phase
      /\ ItemSound(i, u, u \in s.wanted, a, p)
  BY <1>1, ZenonT(40) DEF Item, ItemSound
<1>3. Leads(s, t, a, p, {}) /\ Sound(t, a, p)
  <2>1. t = [s EXCEPT !.item[u] = i]
    BY <1>1 DEF PageState, Item
  <2> HIDE DEF i, t
  <2> QED
    BY <1>2, <2>1, SetItem DEF Leads
<1>4. Leads(t, r, a, p, {})
  <2> HIDE DEF t
  <2>1. CASE Waits(t, u) = {}
    BY <1>3, <2>1, Stays
  <2>2. CASE Waits(t, u) # {}
    <3> DEFINE x == Least(Waits(t, u))
    <3>1. x \in Waits(t, u)
      <4>1. Waits(t, u) \subseteq Nat
        BY DEF Waits, Worker
      <4> QED
        BY <2>2, <4>1, LeastIsMember
    <3>2. x \in Worker /\ t.run[x].pc \notin Asking
      BY <3>1 DEF Waits, Asking
    <3>3. r = Ends(t, x)
      BY <2>2
    <3> HIDE DEF x, r
    <3> QED
      BY <1>3, <3>2, <3>3, EndsLeads, Narrower
  <2> QED
    BY <2>1, <2>2
<1>5. CancelEnds(s, u) = IF s.item[u].removing /\ r.item[u].phase \in Terminal THEN Leaves(r, u) ELSE r
  BY DEF CancelEnds
<1>6. Leads(s, r, a, p, {}) /\ Sound(r, a, p)
  <2> HIDE DEF t, r
  <2> QED
    BY <1>3, <1>4, Then DEF Leads
<1> HIDE DEF r
<1>7. Leads(s, Leaves(r, u), a, p, {})
  BY <1>6, LeavesLeads, Then
<1> QED
  BY <1>5, <1>6, <1>7

LEMMA CancelSeesLeads ==
    ASSUME NEW a, NEW p, NEW s, Sound(s, a, p), NEW u \in Upload, u \in a,
           NEW state \in State, state = "completed" => u \in p
    PROVE  Leads(s, CancelSees(s, u, state), a, p, {})
<1>1. CASE state \in Terminal
  <2> DEFINE t == Closes(s, u, state)
  <2>1. Leads(s, t, a, p, {}) /\ Sound(t, a, p)
    BY <1>1, ClosesLeads DEF Leads
  <2>2. CancelSees(s, u, state) = CancelEnds(t, u)
    BY <1>1 DEF CancelSees
  <2> HIDE DEF t
  <2> QED
    BY <2>1, <2>2, CancelEndsLeads, Then
<1>2. CASE state \notin Terminal
  <2> DEFINE i == [s.item[u] EXCEPT !.cancelling = "delete", !.awaited = Nobody]
  <2>1. s \in PageState /\ s.item[u] \in Item /\ ItemSound(s.item[u], u, u \in s.wanted, a, p)
    BY Fields DEF Sound
  <2>2. /\ i \in Item /\ i.listed = s.item[u].listed /\ i.phase = s.item[u].phase
        /\ ItemSound(i, u, u \in s.wanted, a, p)
    BY <2>1, ZenonT(40) DEF Item, ItemSound
  <2>3. CancelSees(s, u, state) = [s EXCEPT !.item[u] = i]
    BY <1>2, <2>1 DEF CancelSees, PageState, Item
  <2> HIDE DEF i
  <2> QED
    BY <2>2, <2>3, SetItem
<1> QED
  BY <1>1, <1>2

LEMMA CancelFailsLeads ==
    ASSUME NEW a, NEW p, NEW s, Sound(s, a, p), NEW u \in Upload, u \in a, NEW code
    PROVE  Leads(s, CancelFails(s, u, code), a, p, {})
<1> DEFINE phase == IF code = "upload_not_found" THEN "cancelled" ELSE "failed"
           t == WithPhase(s, u, phase)
<1>1. phase \in Phase /\ phase # "completed"
  BY DEF Phase, Terminal
<1>2. Leads(s, t, a, p, {}) /\ Sound(t, a, p)
  <2> HIDE DEF phase
  <2> QED
    BY <1>1, WithPhaseLeads DEF Leads
<1>3. CancelFails(s, u, code) = CancelEnds(t, u)
  BY DEF CancelFails
<1> HIDE DEF t
<1> QED
  BY <1>2, <1>3, CancelEndsLeads, Then

LEMMA CancelStartsLeads ==
    ASSUME NEW a, NEW p, NEW s, Sound(s, a, p), NEW u \in Upload, u \in a
    PROVE  Leads(s, CancelStarts(s, u), a, p, {})
<1> DEFINE i == [s.item[u] EXCEPT !.cancelling = "get"]
           q == [s EXCEPT !.item[u] = i]
           v == WithPhase(q, u, "paused")
           t == Abort(v, u)
<1>1. s \in PageState /\ s.item[u] \in Item /\ ItemSound(s.item[u], u, u \in s.wanted, a, p)
  BY Fields DEF Sound
<1>2. /\ i \in Item /\ i.listed = s.item[u].listed /\ i.phase = s.item[u].phase
      /\ ItemSound(i, u, u \in s.wanted, a, p)
  BY <1>1 DEF Item, ItemSound
<1>3. Leads(s, q, a, p, {}) /\ Sound(q, a, p)
  <2> HIDE DEF i
  <2> QED
    BY <1>2, SetItem DEF Leads
<1>4. Leads(q, v, a, p, {}) /\ Sound(v, a, p)
  <2> HIDE DEF q
  <2>1. "paused" \in Phase
    BY DEF Phase
  <2> QED
    BY <1>3, <2>1, WithPhaseLeads DEF Leads
<1>5. Leads(v, t, a, p, {}) /\ Sound(t, a, p)
  <2> HIDE DEF v
  <2> QED
    BY <1>4, AbortLeads DEF Leads
<1>6. Leads(s, t, a, p, {})
  <2> HIDE DEF q, v, t
  <2> QED
    BY <1>3, <1>4, <1>5, Then
<1>7. CancelStarts(s, u) = IF s.item[u].status \notin {None, "active"} THEN CancelSees(t, u, s.item[u].status)
          ELSE IF t.item[u].resolving # Nobody
          THEN [t EXCEPT !.item[u].cancelling = "await", !.item[u].awaited = t.item[u].resolving]
          ELSE t
  <2>1. q = [s EXCEPT !.item[u].cancelling = "get"]
    BY <1>1 DEF PageState, Item
  <2> HIDE DEF q
  <2> QED
    BY <2>1 DEF CancelStarts
<1> HIDE DEF t
<1>8. CASE s.item[u].status \notin {None, "active"}
  <2> DEFINE state == s.item[u].status
  <2>1. state \in State /\ (state = "completed" => u \in p)
    BY <1>1, <1>8 DEF Item, ItemSound
  <2> HIDE DEF state
  <2>2. Leads(t, CancelSees(t, u, state), a, p, {})
    BY <1>5, <2>1, CancelSeesLeads
  <2>3. CancelStarts(s, u) = CancelSees(t, u, state)
    BY <1>7, <1>8 DEF state
  <2> QED
    BY <1>6, <2>2, <2>3, Then
<1>9. CASE s.item[u].status \in {None, "active"} /\ t.item[u].resolving # Nobody
  <2> DEFINE j == [t.item[u] EXCEPT !.cancelling = "await", !.awaited = t.item[u].resolving]
  <2>1. t \in PageState /\ t.item[u] \in Item /\ ItemSound(t.item[u], u, u \in t.wanted, a, p)
    BY <1>5, Fields DEF Sound
  <2>2. /\ j \in Item /\ j.listed = t.item[u].listed /\ j.phase = t.item[u].phase
        /\ ItemSound(j, u, u \in t.wanted, a, p)
    BY <2>1 DEF Item, ItemSound
  <2>3. CancelStarts(s, u) = [t EXCEPT !.item[u] = j]
    <3>1. CancelStarts(s, u) = [t EXCEPT !.item[u].cancelling = "await", !.item[u].awaited = t.item[u].resolving]
      BY <1>7, <1>9
    <3>2. u \in DOMAIN t.item /\ "item" \in DOMAIN t
      BY <2>1 DEF PageState
    <3>3. [t EXCEPT !.item[u].cancelling = "await", !.item[u].awaited = t.item[u].resolving] = [t EXCEPT !.item[u] = j]
      BY <3>2
    <3> QED
      BY <3>1, <3>3
  <2> HIDE DEF j
  <2>4. Leads(t, [t EXCEPT !.item[u] = j], a, p, {})
    BY <1>5, <2>2, SetItem
  <2> QED
    BY <1>6, <2>3, <2>4, Then
<1>10. CASE s.item[u].status \in {None, "active"} /\ t.item[u].resolving = Nobody
  BY <1>6, <1>7, <1>10
<1> QED
  BY <1>8, <1>9, <1>10

-----------------------------------------------------------------------------
(* The answer of resolveStatus, to the run and to a cancellation that waits *)
(* for it.                                                                 *)
LEMMA ResolvedLeads ==
    ASSUME NEW a, NEW p, NEW s, Sound(s, a, p), NEW w \in Worker, s.run[w].pc # "idle"
    PROVE  /\ Leads(s, Resolved(s, w), a, p, {})
           /\ Resolved(s, w).run = s.run
           /\ s.run[w].of \in Upload
           /\ Awaited(s, s.run[w].of, w) => s.run[w].of \in a
<1> DEFINE u == s.run[w].of
           i == [s.item[u] EXCEPT !.resolving = IF @ = w THEN Nobody ELSE @]
<1>0. u \in Upload
  BY Fields DEF RunSound
<1>1. s \in PageState /\ s.item[u] \in Item /\ ItemSound(s.item[u], u, u \in s.wanted, a, p)
  <2> HIDE DEF u
  <2> QED
    BY <1>0, Fields DEF Sound
<1>2. /\ i \in Item /\ i.listed = s.item[u].listed /\ i.phase = s.item[u].phase
      /\ ItemSound(i, u, u \in s.wanted, a, p)
  <2> HIDE DEF u
  <2> QED
    BY <1>1 DEF Item, ItemSound
<1>3. Resolved(s, w) = [s EXCEPT !.item[u] = i]
  BY <1>0, <1>1 DEF Resolved, PageState, Item
<1>4. Leads(s, [s EXCEPT !.item[u] = i], a, p, {}) /\ [s EXCEPT !.item[u] = i].run = s.run
  <2> HIDE DEF i, u
  <2> QED
    BY <1>0, <1>2, SetItem
<1>5. Awaited(s, u, w) => u \in a
  BY <1>1 DEF Awaited, ItemSound
<1> QED
  BY <1>0, <1>3, <1>4, <1>5

LEMMA AnsweredLeads ==
    ASSUME NEW a, NEW p, NEW s, Sound(s, a, p), NEW w \in Worker, s.run[w].pc \in Asking,
           NEW state \in State, state = "completed" => s.run[w].of \in p,
           NEW parts \in SUBSET Part
    PROVE  Leads(s, Answered(s, w, state, parts), a, p, {w})
<1> DEFINE u == s.run[w].of
           q == Resolved(s, w)
           t == IF Awaited(s, u, w) THEN CancelSees(q, u, state) ELSE q
<1>0. s.run[w].pc # "idle"
  BY DEF Asking
<1>1. /\ Leads(s, q, a, p, {}) /\ Sound(q, a, p) /\ q.run = s.run
      /\ u \in Upload /\ (Awaited(s, u, w) => u \in a)
  BY <1>0, ResolvedLeads DEF Leads
<1>2. Leads(q, t, a, p, {})
  <2> HIDE DEF q, u
  <2>1. CASE Awaited(s, u, w)
    BY <1>1, <2>1, CancelSeesLeads DEF u
  <2>2. CASE ~Awaited(s, u, w)
    BY <1>1, <2>2, Stays
  <2> QED
    BY <2>1, <2>2
<1>3. Leads(s, t, a, p, {w}) /\ Sound(t, a, p) /\ t.run[w] = s.run[w]
  <2> HIDE DEF q, t
  <2>1. Leads(s, t, a, p, {})
    BY <1>1, <1>2, Then
  <2> QED
    BY <2>1, Wider DEF Leads
<1>4. Answered(s, w, state, parts) =
          CASE t.item[u].phase = "cancelled" -> Ends(t, w)
            [] t.item[u].phase = "paused" /\ t.item[u].cancelling # "no" -> Ends(t, w)
            [] t.item[u].phase = "paused" /\ t.item[u].cancelling = "no" ->
                  CancelStarts([t EXCEPT !.run[w].pc = "cancelling"], u)
            [] OTHER -> FromPart([WithStatus(t, u, state) EXCEPT !.run[w].got = parts], w, 0)
  BY DEF Answered
<1>5. t \in PageState /\ t.run[w] \in Run /\ RunSound(t.run[w], t.item, t.wanted, a) /\ t.run[w].of = u
  <2> HIDE DEF t
  <2> QED
    BY <1>3, Fields DEF Sound
<1> HIDE DEF t, q
<1>6. CASE t.item[u].phase = "cancelled" \/ (t.item[u].phase = "paused" /\ t.item[u].cancelling # "no")
  <2>1. Answered(s, w, state, parts) = Ends(t, w)
    BY <1>4, <1>6
  <2> QED
    BY <1>3, <2>1, EndsLeads, Then
<1>7. CASE t.item[u].phase = "paused" /\ t.item[u].cancelling = "no"
  <2> DEFINE r == [t.run[w] EXCEPT !.pc = "cancelling"]
             v == [t EXCEPT !.run[w] = r]
  <2>1. Answered(s, w, state, parts) = CancelStarts(v, u)
    <3>1. v = [t EXCEPT !.run[w].pc = "cancelling"]
      BY <1>5 DEF PageState, Run
    <3> HIDE DEF v
    <3> QED
      BY <1>4, <1>7, <3>1
  <2>2. u \in a
    BY <1>0, <1>3, <1>5, <1>7 DEF RunSound
  <2>3. r \in Run /\ r.of = t.run[w].of /\ r.file = t.run[w].file /\ r.pc = "cancelling" /\ r.pc \notin Asking
    BY <1>5 DEF Run, Asking
  <2>4. Leads(t, v, a, p, {w}) /\ Sound(v, a, p)
    <3> HIDE DEF r
    <3>1. Leads(t, v, a, p, {w})
      BY <1>0, <1>3, <2>3, RunTurns
    <3> QED
      BY <3>1 DEF Leads
  <2> HIDE DEF v, u
  <2>5. Leads(v, CancelStarts(v, u), a, p, {w})
    BY <1>1, <2>2, <2>4, CancelStartsLeads, Wider
  <2> QED
    BY <1>3, <2>1, <2>4, <2>5, Then
<1>8. CASE t.item[u].phase \notin Stopped
  <2> DEFINE x == WithStatus(t, u, state)
             r == [x.run[w] EXCEPT !.got = parts]
             v == [x EXCEPT !.run[w] = r]
  <2>1. Leads(t, x, a, p, {w}) /\ Sound(x, a, p) /\ x.run = t.run
    <3> HIDE DEF u
    <3> QED
      BY <1>1, <1>3, WithStatusLeads, Wider DEF Leads, u
  <2>2. x \in PageState /\ x.run[w] = t.run[w]
    BY <2>1 DEF Sound
  <2>3. Answered(s, w, state, parts) = FromPart(v, w, 0)
    <3>1. v = [x EXCEPT !.run[w].got = parts]
      <4> HIDE DEF x
      <4> QED
        BY <2>2 DEF PageState, Run
    <3>2. Answered(s, w, state, parts) = FromPart([x EXCEPT !.run[w].got = parts], w, 0)
      <4> HIDE DEF v
      <4> QED
        BY <1>4, <1>8 DEF Stopped
    <3> HIDE DEF v, x
    <3> QED
      BY <3>1, <3>2
  <2>4. r \in Run /\ RunSound(r, x.item, x.wanted, a) /\ r.pc # "idle"
    <3> HIDE DEF x
    <3>1. RunSound(x.run[w], x.item, x.wanted, a)
      BY <2>1, Fields
    <3>2. /\ r \in Run /\ r.pc = x.run[w].pc /\ r.of = x.run[w].of /\ r.file = x.run[w].file
          /\ r.try = x.run[w].try
      BY <1>5, <2>2 DEF Run
    <3> HIDE DEF r
    <3> QED
      BY <1>0, <1>3, <2>2, <3>1, <3>2 DEF RunSound
  <2>5. Leads(x, v, a, p, {w}) /\ Sound(v, a, p) /\ v.run[w] = r
    <3> HIDE DEF x, r
    <3> QED
      BY <2>1, <2>4, SetRun DEF Leads
  <2> HIDE DEF v, x, r
  <2>6. Leads(v, FromPart(v, w, 0), a, p, {w})
    BY <2>4, <2>5, FromPartLeads
  <2> QED
    BY <1>3, <2>1, <2>3, <2>5, <2>6, Then
<1> QED
  BY <1>6, <1>7, <1>8 DEF Stopped

LEMMA UnansweredLeads ==
    ASSUME NEW a, NEW p, NEW s, Sound(s, a, p), NEW w \in Worker, s.run[w].pc \in Asking, NEW code
    PROVE  Leads(s, Unanswered(s, w, code), a, p, {w})
<1> DEFINE u == s.run[w].of
           q == Resolved(s, w)
           t == IF Awaited(s, u, w) THEN CancelFails(q, u, code) ELSE q
<1>0. s.run[w].pc # "idle"
  BY DEF Asking
<1>1. /\ Leads(s, q, a, p, {}) /\ Sound(q, a, p) /\ q.run = s.run
      /\ u \in Upload /\ (Awaited(s, u, w) => u \in a)
  BY <1>0, ResolvedLeads DEF Leads
<1>2. Leads(q, t, a, p, {})
  <2> HIDE DEF q, u
  <2>1. CASE Awaited(s, u, w)
    BY <1>1, <2>1, CancelFailsLeads
  <2>2. CASE ~Awaited(s, u, w)
    BY <1>1, <2>2, Stays
  <2> QED
    BY <2>1, <2>2
<1>3. Leads(s, t, a, p, {w}) /\ Sound(t, a, p) /\ t.run[w] = s.run[w]
  <2> HIDE DEF q, t
  <2>1. Leads(s, t, a, p, {})
    BY <1>1, <1>2, Then
  <2> QED
    BY <2>1, Wider DEF Leads
<1>4. Unanswered(s, w, code) = Fails(t, w)
  BY DEF Unanswered
<1> HIDE DEF t
<1> QED
  BY <1>0, <1>3, <1>4, FailsLeads, Then

-----------------------------------------------------------------------------
(* The page and the server together.                                       *)
ServerSound(sv, kept, a, p) ==
    \A u \in Upload :
        /\ sv[u].state \in Open => u \in kept \cup a
        /\ sv[u].state = "completed" => u \in p
        /\ sv[u].state = "cancelled" => u \in a

IInv ==
    /\ Sound(Here, asked, published)
    /\ attachment \in Upload \cup {Nobody}
    /\ published \subseteq Upload /\ asked \subseteq Upload
    /\ server \in [Upload -> Transfer]
    /\ ServerSound(server, wanted \cup lost, asked, published)
    /\ stored \subseteq Upload /\ lost \subseteq Upload
    /\ \A u \in stored : Accounted(Here, u)

LEMMA HereFields ==
    /\ Here.item = item /\ Here.run = run /\ Here.wanted = wanted /\ Here.leaving = leaving
    /\ Here.foreign = foreign
BY DEF Here

LEMMA Facts ==
    ASSUME IInv
    PROVE  /\ Sound(Here, asked, published)
           /\ \A u \in Upload : item[u] \in Item /\ ItemSound(item[u], u, u \in wanted, asked, published)
           /\ \A w \in Worker : run[w] \in Run /\ RunSound(run[w], item, wanted, asked)
           /\ \A u \in Upload : server[u] \in Transfer
           /\ \A w \in Worker : run[w].pc # "idle" => run[w].of \in Upload
<1>1. Sound(Here, asked, published)
  BY DEF IInv
<1>2. /\ \A u \in Upload : item[u] \in Item /\ ItemSound(item[u], u, u \in wanted, asked, published)
      /\ \A w \in Worker : run[w] \in Run /\ RunSound(run[w], item, wanted, asked)
  BY <1>1, HereFields, Fields
<1> QED
  BY <1>1, <1>2 DEF IInv, RunSound

(* The one way a step of the page keeps the invariant.                     *)
LEMMA PageStep ==
    ASSUME IInv, NEW t, NEW W, Becomes(t), Leads(Here, t, asked', published', W),
           attachment' \in Upload \cup {Nobody},
           published' \subseteq Upload, asked' \subseteq Upload,
           server' \in [Upload -> Transfer],
           ServerSound(server', wanted \cup lost, asked', published')
    PROVE  IInv'
<1>1. Sound(t, asked', published') /\ wanted \subseteq t.wanted \cup asked'
  BY HereFields DEF Leads
<1>2. Here' = t /\ wanted' = t.wanted /\ UNCHANGED browser
  <2>1. t \in PageState
    BY <1>1 DEF Sound
  <2>2. Here' = [item |-> t.item, run |-> t.run, wanted |-> t.wanted, leaving |-> t.leaving, foreign |-> t.foreign]
    BY DEF Becomes, Here
  <2> QED
    BY <2>1, <2>2 DEF Becomes, PageState
<1>3. ServerSound(server', wanted' \cup lost', asked', published')
  BY <1>1, <1>2 DEF ServerSound, browser
<1>4. /\ stored' \subseteq Upload /\ lost' \subseteq Upload
      /\ \A u \in stored' : Accounted(Here', u)
  BY <1>2 DEF IInv, Leads, browser
<1> QED
  BY <1>1, <1>2, <1>3, <1>4 DEF IInv

LEMMA QuietStep ==
    ASSUME IInv, NEW t, NEW W, Becomes(t), Leads(Here, t, asked, published, W),
           attachment' = attachment, UNCHANGED <<server, published, asked>>
    PROVE  IInv'
BY PageStep DEF IInv

LEMMA AskedStep ==
    ASSUME IInv, NEW t, NEW W, Becomes(t), asked \subseteq asked', asked' \subseteq Upload,
           Sound(Here, asked', published) => Leads(Here, t, asked', published, W),
           attachment' = attachment, UNCHANGED <<server, published>>
    PROVE  IInv'
<1>1. Leads(Here, t, asked', published, W)
  BY Facts, Grown
<1>2. ServerSound(server, wanted \cup lost, asked', published)
  BY DEF IInv, ServerSound
<1> QED
  BY <1>1, <1>2, PageStep DEF IInv

(* The server takes a step while the page does not.                        *)
LEMMA ServerStep ==
    ASSUME IInv, UNCHANGED <<page, browser, history>>,
           published \subseteq published', published' \subseteq Upload,
           server' \in [Upload -> Transfer],
           ServerSound(server', wanted \cup lost, asked, published')
    PROVE  IInv'
<1>1. Sound(Here, asked, published')
  BY Facts, Grown
<1>2. /\ Here' = Here /\ asked' = asked /\ wanted' = wanted /\ attachment' = attachment
      /\ stored' = stored /\ lost' = lost
  BY DEF Here, page, browser, history
<1> QED
  BY <1>1, <1>2 DEF IInv

-----------------------------------------------------------------------------
(* The server's own steps.                                                 *)
LEMMA ServerOpens ==
    ASSUME IInv, NEW u \in Upload, u \in wanted \cup asked
    PROVE  /\ Opened(u) \in [Upload -> Transfer]
           /\ ServerSound(Opened(u), wanted \cup lost, asked, published)
           /\ Opened(u)[u].state \in State
           /\ Opened(u)[u].state = "completed" => u \in published
           /\ Opened(u)[u].parts \in SUBSET Part
<1>1. server \in [Upload -> Transfer] /\ ServerSound(server, wanted \cup lost, asked, published)
  BY DEF IInv
<1>2. CASE Known(u)
  BY <1>1, <1>2 DEF Opened, Known, Transfer, ServerSound
<1>3. CASE ~Known(u)
  <2>1. Opened(u) = [server EXCEPT ![u] = [state |-> "active", parts |-> {}]]
    BY <1>3 DEF Opened
  <2> QED
    BY <1>1, <2>1 DEF Transfer, State, Open, ServerSound
<1> QED
  BY <1>2, <1>3

LEMMA ServerTakes ==
    ASSUME IInv, NEW u \in Upload, NEW n \in Part
    PROVE  /\ WithPart(u, n) \in [Upload -> Transfer]
           /\ ServerSound(WithPart(u, n), wanted \cup lost, asked, published)
<1>1. server \in [Upload -> Transfer] /\ ServerSound(server, wanted \cup lost, asked, published)
  BY DEF IInv
<1> QED
  BY <1>1 DEF WithPart, Transfer, ServerSound

LEMMA ServerCloses ==
    ASSUME IInv, NEW u \in Upload, NEW state \in Terminal, NEW p,
           published \subseteq p, state = "completed" => u \in p, state = "cancelled" => u \in asked
    PROVE  /\ Closed(u, state) \in [Upload -> Transfer]
           /\ ServerSound(Closed(u, state), wanted \cup lost, asked, p)
<1>1. server \in [Upload -> Transfer] /\ ServerSound(server, wanted \cup lost, asked, published)
  BY DEF IInv
<1> QED
  BY <1>1 DEF Closed, Transfer, State, Open, Terminal, ServerSound

LEMMA ServerMoves ==
    ASSUME IInv, NEW u \in Upload, server[u].state \in Open, NEW state \in Open, NEW p, published \subseteq p
    PROVE  /\ [server EXCEPT ![u].state = state] \in [Upload -> Transfer]
           /\ ServerSound([server EXCEPT ![u].state = state], wanted \cup lost, asked, p)
<1>1. server \in [Upload -> Transfer] /\ ServerSound(server, wanted \cup lost, asked, published)
  BY DEF IInv
<1> QED
  BY <1>1 DEF Transfer, State, Open, Terminal, ServerSound

LEMMA ArrivesKeeps == ASSUME IInv, NEW w \in Worker, Arrives(w) PROVE IInv'
<1> DEFINE u == run[w].of
<1>1. run[w] \in Run /\ RunSound(run[w], item, wanted, asked)
  BY Facts
<1>2. UNCHANGED <<page, browser, history>>
  BY DEF Arrives
<1>3. CASE run[w].pc = "create" /\ server' = Opened(u) /\ UNCHANGED published
  <2>1. u \in Upload /\ u \in wanted \cup asked
    BY <1>1, <1>3 DEF RunSound
  <2> HIDE DEF u
  <2> QED
    BY <1>2, <1>3, <2>1, ServerOpens, ServerStep DEF IInv
<1>4. CASE run[w].pc = "put" /\ server' = WithPart(u, run[w].part) /\ UNCHANGED published
  <2>1. u \in Upload /\ run[w].part \in Part
    BY <1>1, <1>4 DEF RunSound, Run
  <2> HIDE DEF u
  <2> QED
    BY <1>2, <1>4, <2>1, ServerTakes, ServerStep DEF IInv
<1>5. CASE run[w].pc = "complete" /\ server' = Closed(u, "completed") /\ published' = published \cup {u}
  <2>1. u \in Upload
    BY <1>1, <1>5 DEF RunSound
  <2>2. published \subseteq published' /\ u \in published' /\ published' \subseteq Upload
    BY <1>5, <2>1 DEF IInv
  <2> HIDE DEF u
  <2>3. server' \in [Upload -> Transfer] /\ ServerSound(server', wanted \cup lost, asked, published')
    BY <1>5, <2>1, <2>2, ServerCloses DEF Terminal
  <2> QED
    BY <1>2, <2>2, <2>3, ServerStep
<1>6. CASE /\ run[w].pc = "complete" /\ Completable(u)
           /\ server' = [server EXCEPT ![u].state = "finalizing"]
           /\ published' \in {published, published \cup {u}}
  <2>1. u \in Upload
    BY <1>1, <1>6 DEF RunSound
  <2>2. server[u].state \in Open /\ "finalizing" \in Open
    BY <1>6 DEF Completable, Open
  <2>3. published \subseteq published' /\ published' \subseteq Upload
    BY <1>6, <2>1 DEF IInv
  <2> HIDE DEF u
  <2>4. server' \in [Upload -> Transfer] /\ ServerSound(server', wanted \cup lost, asked, published')
    BY <1>6, <2>1, <2>2, <2>3, ServerMoves
  <2> QED
    BY <1>2, <2>3, <2>4, ServerStep
<1> QED
  BY <1>3, <1>4, <1>5, <1>6 DEF Arrives

LEMMA DeleteArrivesKeeps == ASSUME IInv, NEW u \in Upload, DeleteArrives(u) PROVE IInv'
<1>1. u \in asked
  BY Facts DEF DeleteArrives, ItemSound
<1>2. server' \in [Upload -> Transfer] /\ ServerSound(server', wanted \cup lost, asked, published')
  BY <1>1, ServerCloses DEF DeleteArrives, Terminal
<1> QED
  BY <1>2, ServerStep DEF DeleteArrives, history, IInv

LEMMA ReconcileKeeps == ASSUME IInv, NEW u \in Upload, Reconcile(u) PROVE IInv'
<1>1. server[u].state \in Open /\ "active" \in Open /\ "completed" \in Terminal
  BY DEF Reconcile, Open, Terminal
<1>2. CASE u \in published
  <2>1. server' = Closed(u, "completed") /\ published' = published
    BY <1>2 DEF Reconcile
  <2>2. server' \in [Upload -> Transfer] /\ ServerSound(server', wanted \cup lost, asked, published')
    BY <1>1, <1>2, <2>1, ServerCloses
  <2> QED
    BY <2>1, <2>2, ServerStep DEF Reconcile, IInv
<1>3. CASE u \notin published
  <2>1. server' = [server EXCEPT ![u].state = "active"] /\ published' = published
    BY <1>3 DEF Reconcile
  <2>2. server' \in [Upload -> Transfer] /\ ServerSound(server', wanted \cup lost, asked, published')
    BY <1>1, <2>1, ServerMoves
  <2> QED
    BY <2>1, <2>2, ServerStep DEF Reconcile, IInv
<1> QED
  BY <1>2, <1>3

-----------------------------------------------------------------------------
(* The browser does what it was asked to do.                               *)
LEMMA RecordLandsKeeps == ASSUME IInv, NEW u \in Upload, RecordLands(u) PROVE IInv'
<1>1. /\ stored' = stored \cup {u} /\ u \in wanted \cup leaving
      /\ UNCHANGED <<page, lost, server, published, history>>
  BY DEF RecordLands
<1>2. Here' = Here /\ wanted' = wanted /\ asked' = asked /\ attachment' = attachment
  BY <1>1 DEF Here, page, history
<1>3. Accounted(Here, u)
  BY <1>1, Facts, HereFields DEF Accounted, ItemSound
<1> QED
  BY <1>1, <1>2, <1>3 DEF IInv

\* Nothing that is sound of the page rests on what it has asked to be forgotten.
LEMMA Erased ==
    ASSUME NEW a, NEW p, NEW s, Sound(s, a, p), NEW u \in Upload
    PROVE  LET t == [s EXCEPT !.leaving = @ \ {u}] IN
           /\ Sound(t, a, p) /\ t.item = s.item /\ t.run = s.run
           /\ t.leaving = s.leaving \ {u}
<1> DEFINE t == [s EXCEPT !.leaving = @ \ {u}]
<1>1. /\ t \in PageState /\ t.item = s.item /\ t.run = s.run /\ t.wanted = s.wanted
      /\ t.foreign = s.foreign /\ t.leaving = s.leaving \ {u}
  BY DEF Sound, PageState
<1> HIDE DEF t
<1>2. Sound(t, a, p)
  BY <1>1 DEF Sound
<1> QED
  BY <1>1, <1>2 DEF t

LEMMA EraseLandsKeeps == ASSUME IInv, NEW u \in Upload, EraseLands(u) PROVE IInv'
<1> DEFINE t == [Here EXCEPT !.leaving = @ \ {u}]
<1>1. /\ stored' = stored \ {u} /\ leaving' = leaving \ {u}
      /\ UNCHANGED <<item, run, attachment, wanted, lost, server, published, history>>
  BY DEF EraseLands
<1>2. Here' = t
  BY <1>1 DEF Here, history
<1>3. /\ Sound(t, asked, published) /\ t.item = Here.item /\ t.leaving = Here.leaving \ {u}
  BY Facts, Erased
<1> HIDE DEF t
<1>4. \A v \in stored' : Accounted(t, v)
  BY <1>1, <1>3 DEF IInv, Accounted
<1> QED
  BY <1>1, <1>2, <1>3, <1>4 DEF IInv, history

LEMMA ReapKeeps == ASSUME IInv, NEW u \in Upload, Reap(u) PROVE IInv'
<1>1. server' = [server EXCEPT ![u] = [state |-> "none", parts |-> {}]]
  BY DEF Reap
<1>2. server' \in [Upload -> Transfer] /\ ServerSound(server', wanted \cup lost, asked, published')
  BY <1>1 DEF IInv, Transfer, State, Open, Terminal, ServerSound, Reap
<1> QED
  BY <1>2, ServerStep DEF Reap, history, IInv

-----------------------------------------------------------------------------
(* The steps of a run.                                                     *)
LEMMA HashEndsKeeps == ASSUME IInv, NEW w \in Worker, HashEnds(w) PROVE IInv'
<1>1. Sound(Here, asked, published) /\ Here.run = run /\ run[w].pc # "idle"
  BY Facts, HereFields DEF HashEnds
<1>2. /\ Leads(Here, Ends(Here, w), asked, published, {w})
      /\ Leads(Here, Asks(Here, run[w].of, w), asked, published, {w})
      /\ Leads(Here, Fails(Here, w), asked, published, {w})
  BY <1>1, EndsLeads, AsksLeads, FailsLeads
<1>3. \/ Becomes(Ends(Here, w)) \/ Becomes(Asks(Here, run[w].of, w)) \/ Becomes(Fails(Here, w))
  BY DEF HashEnds
<1> QED
  BY <1>2, <1>3, QuietStep DEF HashEnds

LEMMA LookupKeeps == ASSUME IInv, NEW w \in Worker, Lookup(w) PROVE IInv'
<1> DEFINE u == run[w].of
           t == Answered(Here, w, server[u].state, server[u].parts)
<1>1. /\ Sound(Here, asked, published) /\ Here.run = run
      /\ run[w].pc \in Asking /\ u \in Upload
  BY Facts, HereFields DEF Lookup, Asking
<1>2. server[u].state \in State /\ server[u].parts \in SUBSET Part
  BY <1>1, Facts DEF Lookup, Known, Transfer
<1>3. server[u].state = "completed" => u \in published
  BY <1>1 DEF IInv, ServerSound
<1>4. Leads(Here, t, asked, published, {w})
  BY <1>1, <1>2, <1>3, AnsweredLeads
<1> QED
  BY <1>4, QuietStep DEF Lookup

LEMMA CreateKeeps == ASSUME IInv, NEW w \in Worker, Create(w) PROVE IInv'
<1> DEFINE u == run[w].of
           t == Answered(Here, w, Opened(u)[u].state, Opened(u)[u].parts)
<1>1. /\ Sound(Here, asked, published) /\ Here.run = run
      /\ run[w].pc \in Asking /\ u \in Upload /\ u \in wanted \cup asked
  BY Facts, HereFields DEF Create, Asking, RunSound
<1>2. /\ Opened(u) \in [Upload -> Transfer]
      /\ ServerSound(Opened(u), wanted \cup lost, asked, published)
      /\ Opened(u)[u].state \in State
      /\ Opened(u)[u].state = "completed" => u \in published
      /\ Opened(u)[u].parts \in SUBSET Part
  BY <1>1, ServerOpens
<1>3. Leads(Here, t, asked, published, {w})
  BY <1>1, <1>2, AnsweredLeads
<1>4. Becomes(t) /\ server' = Opened(u) /\ UNCHANGED <<attachment, published, asked>>
  BY DEF Create
<1> HIDE DEF t, u
<1> QED
  BY <1>2, <1>3, <1>4, PageStep DEF IInv

LEMMA CreateRefusedKeeps == ASSUME IInv, NEW w \in Worker, CreateRefused(w) PROVE IInv'
<1> DEFINE r == [run[w] EXCEPT !.pc = "recheck"]
           t == [Here EXCEPT !.run[w] = r]
<1>1. run[w] \in Run /\ RunSound(run[w], item, wanted, asked) /\ run[w].pc = "create"
  BY Facts DEF CreateRefused
<1>2. r \in Run /\ RunSound(r, item, wanted, asked)
  BY <1>1 DEF Run, Asking, RunSound
<1>3. Leads(Here, t, asked, published, {w})
  <2> HIDE DEF r
  <2> QED
    BY <1>2, Facts, HereFields, SetRun
<1>4. Becomes(t)
  BY <1>1, HereFields, Facts DEF CreateRefused, Sound, PageState, Run
<1> HIDE DEF t
<1> QED
  BY <1>3, <1>4, QuietStep DEF CreateRefused

LEMMA QuestionFailsKeeps == ASSUME IInv, NEW w \in Worker, QuestionFails(w) PROVE IInv'
<1>1. Sound(Here, asked, published) /\ Here.run = run /\ run[w].pc \in Asking
  BY Facts, HereFields DEF QuestionFails
<1>2. \A code : Leads(Here, Unanswered(Here, w, code), asked, published, {w})
  BY <1>1, UnansweredLeads
<1>3. \E code : Becomes(Unanswered(Here, w, code))
  BY DEF QuestionFails
<1> QED
  BY <1>2, <1>3, QuietStep DEF QuestionFails

LEMMA SliceEndsKeeps == ASSUME IInv, NEW w \in Worker, SliceEnds(w) PROVE IInv'
<1>1. Sound(Here, asked, published) /\ Here.run = run /\ run[w].pc # "idle"
  BY Facts, HereFields DEF SliceEnds
<1>2. /\ Leads(Here, Puts(Here, w), asked, published, {w})
      /\ Leads(Here, Fails(Here, w), asked, published, {w})
  BY <1>1, PutsLeads, FailsLeads
<1> QED
  BY <1>2, QuietStep DEF SliceEnds

LEMMA PutDoneKeeps == ASSUME IInv, NEW w \in Worker, PutDone(w) PROVE IInv'
<1>1. /\ Sound(Here, asked, published) /\ Here.run = run /\ run[w].pc = "put"
      /\ run[w].of \in Upload /\ run[w].part \in Part
  BY Facts, HereFields DEF PutDone, Run
<1>2. Leads(Here, Sent(Here, w), asked, published, {w})
  BY <1>1, SentLeads DEF Asking
<1>3. /\ server' \in [Upload -> Transfer]
      /\ ServerSound(server', wanted \cup lost, asked, published)
  BY <1>1, ServerTakes DEF PutDone
<1> QED
  BY <1>2, <1>3, PageStep DEF PutDone, IInv

LEMMA PutRefusedKeeps == ASSUME IInv, NEW w \in Worker, PutRefused(w) PROVE IInv'
<1> DEFINE t == LetGo(Here, run[w].of, w)
<1>1. /\ Sound(Here, asked, published) /\ Here.run = run /\ run[w].pc # "idle"
      /\ run[w].of \in Upload
  BY Facts, HereFields DEF PutRefused
<1>2. Leads(Here, t, asked, published, {w}) /\ Sound(t, asked, published) /\ t.run = run
  BY <1>1, LetGoLeads, Wider DEF Leads
<1>3. Becomes(Fails(t, w))
  BY DEF PutRefused
<1> HIDE DEF t
<1>4. Leads(Here, Fails(t, w), asked, published, {w})
  BY <1>1, <1>2, FailsLeads, Then
<1> QED
  BY <1>3, <1>4, QuietStep DEF PutRefused

LEMMA PutLostKeeps == ASSUME IInv, NEW w \in Worker, PutLost(w) PROVE IInv'
<1>1. Sound(Here, asked, published) /\ Here.run = run /\ run[w].pc # "idle"
  BY Facts, HereFields DEF PutLost
<1>2. Leads(Here, GivenUp(Here, w), asked, published, {w})
  BY <1>1, GivenUpLeads
<1> QED
  BY <1>2, QuietStep DEF PutLost

LEMMA AgainLeads ==
    ASSUME NEW a, NEW p, NEW s, Sound(s, a, p), NEW w \in Worker, s.run[w].pc = "recover"
    PROVE  Leads(s, Puts([s EXCEPT !.run[w].try = @ + 1], w), a, p, {w})
<1> DEFINE u == s.run[w].of
           r == [s.run[w] EXCEPT !.try = @ + 1, !.pc = "put"]
           t == [s EXCEPT !.run[w] = r]
           i == [t.item[u] EXCEPT !.controller = w]
<1>1. /\ s \in PageState /\ s.run[w] \in Run /\ u \in Upload /\ s.run[w].try # Attempts
      /\ s.run[w].file = Original
  BY Fields DEF Sound, RunSound
<1>2. /\ r \in Run /\ r.of = s.run[w].of /\ r.file = s.run[w].file
      /\ r.pc = "put" /\ r.pc \notin Asking
  <2>1. s.run[w].try + 1 \in 1..Attempts
    BY <1>1, QueueAssumption DEF Run
  <2> QED
    BY <1>1, <2>1 DEF Run, Asking
<1>3. Leads(s, t, a, p, {w}) /\ Sound(t, a, p) /\ t.item = s.item
  <2> HIDE DEF r
  <2> QED
    BY <1>2, RunTurns DEF Leads
<1>4. /\ i \in Item /\ i.listed = t.item[u].listed /\ i.phase = t.item[u].phase
      /\ ItemSound(i, u, u \in t.wanted, a, p)
  <2> HIDE DEF t, u
  <2>1. t.item[u] \in Item /\ ItemSound(t.item[u], u, u \in t.wanted, a, p)
    BY <1>1, <1>3, Fields
  <2> QED
    BY <2>1 DEF Item, ItemSound
<1>5. Leads(t, [t EXCEPT !.item[u] = i], a, p, {w})
  <2> HIDE DEF t, u, i
  <2> QED
    BY <1>1, <1>3, <1>4, SetItem, Wider
<1>6. Puts([s EXCEPT !.run[w].try = @ + 1], w) = [t EXCEPT !.item[u] = i]
  <2> DEFINE q == s.run[w]
             m == [s EXCEPT !.run[w].try = @ + 1]
  <2>1. m.run = [s.run EXCEPT ![w] = [q EXCEPT !.try = @ + 1]] /\ m.item = s.item /\ m.foreign = s.foreign
    BY <1>1 DEF PageState
  <2>2. m = [s EXCEPT !.run = [s.run EXCEPT ![w] = [q EXCEPT !.try = @ + 1]]]
    BY <1>1 DEF PageState
  <2>3. [q EXCEPT !.try = @ + 1].of = q.of /\ [q EXCEPT !.try = @ + 1].file = q.file
    <3>1. q \in Run
      BY <1>1
    <3> HIDE DEF q
    <3> QED
      BY <3>1 DEF Run
  <2>4. m.run[w] = [q EXCEPT !.try = @ + 1] /\ m.run[w].of = u /\ m.run[w].file = Original
    <3> HIDE DEF m
    <3> QED
      BY <1>1, <2>1, <2>3 DEF PageState
  <2>5. Puts(m, w) = [m EXCEPT !.run[w].pc = "put", !.item[u].controller = w]
    <3>1. Puts(m, w) = [m EXCEPT !.run[w].pc = "put", !.item[u].controller = w, !.foreign = @]
      <4> HIDE DEF m, u
      <4> QED
        BY <2>4 DEF Puts
    <3> QED
      BY <3>1, <1>1, ZenonT(40) DEF PageState
  <2>6. [m EXCEPT !.run[w].pc = "put", !.item[u].controller = w]
          = [s EXCEPT !.run = [m.run EXCEPT ![w].pc = "put"], !.item = [s.item EXCEPT ![u].controller = w]]
    <3> HIDE DEF m, u, q
    <3> QED
      BY <1>1, <2>1, <2>2 DEF PageState
  <2>7. [m.run EXCEPT ![w].pc = "put"] = [s.run EXCEPT ![w] = r]
    <3> HIDE DEF m
    <3> QED
      BY <1>1, <2>1 DEF PageState
  <2>8. [t EXCEPT !.item[u] = i] = [s EXCEPT !.run = [s.run EXCEPT ![w] = r], !.item = [s.item EXCEPT ![u].controller = w]]
    <3> HIDE DEF u, r
    <3> QED
      BY <1>1 DEF PageState
  <2>9. Puts(m, w) = [t EXCEPT !.item[u] = i]
    <3> HIDE DEF m, i, t
    <3> QED
      BY <2>5, <2>6, <2>7, <2>8
  <2> QED
    BY <2>9
<1> HIDE DEF t, u, i
<1> QED
  BY <1>3, <1>5, <1>6, Then

LEMMA RecoverKeeps == ASSUME IInv, NEW w \in Worker, Recover(w) PROVE IInv'
<1> DEFINE u == run[w].of
           i == [item[u] EXCEPT !.status = server[u].state]
           seen == [Here EXCEPT !.item[u].status = server[u].state]
<1>1. /\ Sound(Here, asked, published) /\ Here.run = run /\ Here.item = item /\ Here.wanted = wanted
      /\ run[w].pc = "recover" /\ u \in Upload /\ run[w].try # Attempts
  BY Facts, HereFields DEF Recover, RunSound
<1>2. ASSUME Known(u) PROVE Leads(Here, seen, asked, published, {w}) /\ Sound(seen, asked, published) /\ seen.run = run
  <2>1. /\ item[u] \in Item /\ ItemSound(item[u], u, u \in wanted, asked, published)
        /\ server[u].state \in State /\ (server[u].state = "completed" => u \in published)
    BY <1>1, <1>2, Facts DEF Known, Transfer, IInv, ServerSound
  <2>2. /\ i \in Item /\ i.listed = item[u].listed /\ i.phase = item[u].phase
        /\ ItemSound(i, u, u \in wanted, asked, published)
    BY <2>1 DEF Item, ItemSound
  <2>3. seen = [Here EXCEPT !.item[u] = i]
    BY <1>1, <2>1 DEF Sound, PageState, Item
  <2> HIDE DEF i, u, seen
  <2> QED
    BY <1>1, <2>2, <2>3, SetItem, Wider DEF Leads
<1>3. ASSUME NEW s, Leads(Here, s, asked, published, {w}), Sound(s, asked, published), s.run = run
      PROVE  /\ Leads(Here, Sent(s, w), asked, published, {w})
             /\ Leads(Here, Puts([s EXCEPT !.run[w].try = @ + 1], w), asked, published, {w})
  <2>1. Leads(s, Sent(s, w), asked, published, {w})
    BY <1>1, <1>3, SentLeads DEF Asking
  <2>2. Leads(s, Puts([s EXCEPT !.run[w].try = @ + 1], w), asked, published, {w})
    BY <1>1, <1>3, AgainLeads
  <2> QED
    BY <1>3, <2>1, <2>2, Then
<1>4. \/ Known(u) /\ Becomes(Sent(seen, w))
      \/ Known(u) /\ Becomes(Puts([seen EXCEPT !.run[w].try = @ + 1], w))
      \/ Becomes(Puts([Here EXCEPT !.run[w].try = @ + 1], w))
  BY DEF Recover
<1>5. UNCHANGED <<attachment, server, published, asked>>
  BY DEF Recover
<1> HIDE DEF seen, u
<1>6. Leads(Here, Here, asked, published, {w})
  BY <1>1, Stays
<1>7. CASE Known(u) /\ Becomes(Sent(seen, w))
  BY <1>2, <1>3, <1>5, <1>7, QuietStep
<1>8. CASE Known(u) /\ Becomes(Puts([seen EXCEPT !.run[w].try = @ + 1], w))
  BY <1>2, <1>3, <1>5, <1>8, QuietStep
<1>9. CASE Becomes(Puts([Here EXCEPT !.run[w].try = @ + 1], w))
  <2>1. Leads(Here, Puts([Here EXCEPT !.run[w].try = @ + 1], w), asked, published, {w})
    BY <1>1, AgainLeads, <1>6
  <2> QED
    BY <1>5, <1>9, <2>1, QuietStep
<1> QED
  BY <1>4, <1>7, <1>8, <1>9

LEMMA CompleteKeeps == ASSUME IInv, NEW w \in Worker, Complete(w) PROVE IInv'
<1> DEFINE u == run[w].of
           t == Closes(Here, u, "completed")
<1>1. /\ server' = Closed(u, "completed") /\ published' = published \cup {u}
      /\ Becomes(Ends(t, w)) /\ UNCHANGED <<attachment, asked>>
      /\ run[w].pc # "idle"
  BY DEF Complete
<1>2. u \in Upload
  BY <1>1, Facts
<1> HIDE DEF u
<1>3. /\ published \subseteq published' /\ u \in published' /\ published' \subseteq Upload
      /\ attachment' \in Upload \cup {Nobody} /\ asked' \subseteq Upload
  BY <1>1, <1>2 DEF IInv
<1>4. server' \in [Upload -> Transfer] /\ ServerSound(server', wanted \cup lost, asked, published')
  BY <1>1, <1>2, <1>3, ServerCloses DEF Terminal
<1>5. Sound(Here, asked, published')
  BY <1>3, Facts, Grown
<1>6. Leads(Here, t, asked, published', {w}) /\ Sound(t, asked, published')
  BY <1>2, <1>3, <1>5, ClosesLeads, Wider DEF Leads, Terminal
<1> HIDE DEF t
<1>7. Leads(Here, Ends(t, w), asked, published', {w})
  BY <1>6, EndsLeads, Then
<1> QED
  BY <1>1, <1>3, <1>4, <1>7, PageStep

LEMMA CompleteRefusedKeeps == ASSUME IInv, NEW w \in Worker, CompleteRefused(w) PROVE IInv'
<1>1. Sound(Here, asked, published) /\ Here.run = run /\ run[w].pc # "idle"
  BY Facts, HereFields DEF CompleteRefused
<1>2. Leads(Here, Fails(Here, w), asked, published, {w})
  BY <1>1, FailsLeads
<1> QED
  BY <1>2, QuietStep DEF CompleteRefused

LEMMA CompleteLostKeeps == ASSUME IInv, NEW w \in Worker, CompleteLost(w) PROVE IInv'
<1>1. /\ Sound(Here, asked, published) /\ Here.run = run /\ run[w].pc = "complete"
      /\ run[w] \in Run
  BY Facts, HereFields DEF CompleteLost
<1>2. CASE run[w].try = Attempts
  <2>1. Leads(Here, Fails(Here, w), asked, published, {w})
    BY <1>1, FailsLeads
  <2> QED
    BY <1>2, <2>1, QuietStep DEF CompleteLost
<1>3. CASE run[w].try # Attempts
  <2> DEFINE r == [run[w] EXCEPT !.try = @ + 1]
             t == [Here EXCEPT !.run[w] = r]
  <2>1. /\ r \in Run /\ r.of = run[w].of /\ r.file = run[w].file
        /\ r.pc = "complete" /\ r.pc \notin Asking
    <3>1. run[w].try + 1 \in 1..Attempts
      BY <1>1, <1>3, QueueAssumption DEF Run
    <3> QED
      BY <1>1, <3>1 DEF Run, Asking
  <2>2. Becomes(t)
    <3>1. [Here EXCEPT !.run[w].try = @ + 1] = t
      BY <1>1 DEF Sound, PageState, Run
    <3> HIDE DEF t
    <3> QED
      BY <1>3, <3>1 DEF CompleteLost
  <2>3. Leads(Here, t, asked, published, {w})
    <3> HIDE DEF r
    <3> QED
      BY <1>1, <2>1, RunTurns
  <2> HIDE DEF t
  <2> QED
    BY <2>2, <2>3, QuietStep DEF CompleteLost
<1> QED
  BY <1>2, <1>3

-----------------------------------------------------------------------------
(* The steps of a cancellation: that it is under way says the user asked.  *)
LEMMA CancelLookupKeeps == ASSUME IInv, NEW u \in Upload, CancelLookup(u) PROVE IInv'
<1>1. Sound(Here, asked, published) /\ u \in asked
  BY Facts DEF CancelLookup, ItemSound
<1>2. \A code : Leads(Here, CancelFails(Here, u, code), asked, published, {})
  BY <1>1, CancelFailsLeads
<1>3. Known(u) => Leads(Here, CancelSees(Here, u, server[u].state), asked, published, {})
  <2>1. Known(u) => server[u].state \in State
    BY Facts DEF Known, Transfer
  <2>2. server[u].state = "completed" => u \in published
    BY DEF IInv, ServerSound
  <2> QED
    BY <1>1, <2>1, <2>2, CancelSeesLeads
<1>4. \/ Known(u) /\ Becomes(CancelSees(Here, u, server[u].state))
      \/ \E code : Becomes(CancelFails(Here, u, code))
  BY DEF CancelLookup
<1>5. attachment' = attachment /\ UNCHANGED <<server, published, asked>>
  BY DEF CancelLookup
<1>6. CASE Known(u) /\ Becomes(CancelSees(Here, u, server[u].state))
  BY <1>3, <1>5, <1>6, QuietStep
<1>7. CASE \E code : Becomes(CancelFails(Here, u, code))
  BY <1>2, <1>5, <1>7, QuietStep
<1> QED
  BY <1>4, <1>6, <1>7

LEMMA CancelDeletesKeeps == ASSUME IInv, NEW u \in Upload, CancelDeletes(u) PROVE IInv'
<1>1. /\ Sound(Here, asked, published) /\ u \in asked
      /\ item[u] \in Item /\ ItemSound(item[u], u, u \in wanted, asked, published)
  BY Facts DEF CancelDeletes, ItemSound
<1>2. attachment' = attachment /\ UNCHANGED <<published, asked>>
  BY DEF CancelDeletes
<1>3. CASE server' = Closed(u, "cancelled")
           /\ Becomes(CancelEnds(WithPhase(Here, u, "cancelled"), u))
  <2> DEFINE t == WithPhase(Here, u, "cancelled")
  <2>1. Leads(Here, t, asked, published, {}) /\ Sound(t, asked, published)
    <3>1. "cancelled" \in Phase
      BY DEF Phase, Terminal
    <3>2. Leads(Here, t, asked, published, {})
      BY <1>1, <3>1, WithPhaseLeads
    <3> QED
      BY <3>2 DEF Leads
  <2> HIDE DEF t
  <2>2. Leads(Here, CancelEnds(t, u), asked, published, {})
    BY <1>1, <2>1, CancelEndsLeads, Then
  <2>3. server' \in [Upload -> Transfer] /\ ServerSound(server', wanted \cup lost, asked, published)
    BY <1>1, <1>3, ServerCloses DEF Terminal
  <2>4. Becomes(CancelEnds(t, u))
    BY <1>3 DEF t
  <2> QED
    BY <1>2, <2>2, <2>3, <2>4, PageStep DEF IInv
<1>4. CASE UNCHANGED server /\ \E code : Becomes(CancelFails(Here, u, code))
  BY <1>1, <1>2, <1>4, CancelFailsLeads, QuietStep
<1>5. CASE /\ Finished(u) /\ server' = Closed(u, "completed")
           /\ Becomes([Here EXCEPT !.item[u].cancelling = "check"])
  <2> DEFINE i == [item[u] EXCEPT !.cancelling = "check"]
  <2>1. /\ i \in Item /\ i.listed = item[u].listed /\ i.phase = item[u].phase
        /\ ItemSound(i, u, u \in wanted, asked, published)
    BY <1>1 DEF Item, ItemSound
  <2>2. [Here EXCEPT !.item[u].cancelling = "check"] = [Here EXCEPT !.item[u] = i]
    BY <1>1, HereFields DEF Sound, PageState, Item
  <2> HIDE DEF i
  <2>3. Leads(Here, [Here EXCEPT !.item[u] = i], asked, published, {})
    BY <1>1, <2>1, HereFields, SetItem
  <2>4. u \in published
    BY <1>5 DEF Finished, IInv, ServerSound
  <2>5. server' \in [Upload -> Transfer] /\ ServerSound(server', wanted \cup lost, asked, published)
    BY <1>5, <2>4, ServerCloses DEF Terminal
  <2> QED
    BY <1>2, <1>5, <2>2, <2>3, <2>5, PageStep DEF IInv
<1> QED
  BY <1>3, <1>4, <1>5 DEF CancelDeletes

LEMMA CancelChecksKeeps == ASSUME IInv, NEW u \in Upload, CancelChecks(u) PROVE IInv'
<1>1. Sound(Here, asked, published) /\ u \in asked
  BY Facts DEF CancelChecks, ItemSound
<1>2. attachment' = attachment /\ UNCHANGED <<server, published, asked>>
  BY DEF CancelChecks
<1>3. CASE server[u].state = "completed" /\ Becomes(CancelSees(Here, u, "completed"))
  <2>1. u \in published /\ "completed" \in State
    BY <1>3 DEF IInv, ServerSound, State, Terminal
  <2>2. Leads(Here, CancelSees(Here, u, "completed"), asked, published, {})
    BY <1>1, <2>1, CancelSeesLeads
  <2> QED
    BY <1>2, <1>3, <2>2, QuietStep
<1>4. CASE Becomes(CancelFails(Here, u, "upload_conflict"))
  BY <1>1, <1>2, <1>4, CancelFailsLeads, QuietStep
<1> QED
  BY <1>3, <1>4 DEF CancelChecks

-----------------------------------------------------------------------------
(* What the user does.                                                     *)
LEMMA AddKeeps == ASSUME IInv, NEW u \in Upload, Add(u) PROVE IInv'
<1> DEFINE i == [NewItem EXCEPT !.listed = TRUE, !.file = Original]
           t == [Here EXCEPT !.item[u] = i]
<1>1. Sound(Here, asked, published) /\ item[u] = NewItem /\ item[u] \in Item
  BY Facts DEF Add
<1>2. /\ i \in Item /\ i.listed /\ i.phase # "paused"
      /\ ItemSound(i, u, u \in wanted, asked, published)
  <2>1. i \in Item
    BY <1>1, QueueAssumption DEF NewItem, Item
  <2>2. /\ i.listed = TRUE /\ i.phase = "waiting" /\ i.file = Original /\ i.status = None
        /\ i.cancelling = "no" /\ i.removing = FALSE
    BY DEF NewItem
  <2> QED
    BY <2>1, <2>2, QueueAssumption DEF ItemSound
<1>3. Leads(Here, t, asked, published, {}) /\ Sound(t, asked, published)
  <2> HIDE DEF i
  <2> QED
    BY <1>1, <1>2, HereFields, SetItem DEF Leads
<1>4. /\ Becomes(Pump(t)) /\ attachment' \in Upload \cup {Nobody}
      /\ UNCHANGED <<server, published, asked>>
  BY DEF Add
<1> HIDE DEF t
<1>5. Leads(Here, Pump(t), asked, published, {})
  BY <1>3, PumpLeads, Then
<1> QED
  BY <1>4, <1>5, PageStep DEF IInv

LEMMA OpenPickerKeeps == ASSUME IInv, NEW u \in Upload, OpenPicker(u) PROVE IInv'
<1>1. Becomes(Here) /\ attachment' \in Upload \cup {Nobody} /\ UNCHANGED <<server, published, asked>>
  BY DEF OpenPicker
<1>2. Leads(Here, Here, asked, published, {})
  BY Facts, Stays
<1> QED
  BY <1>1, <1>2, PageStep DEF IInv

LEMMA AttachFileKeeps == ASSUME IInv, NEW c \in Content \cup {None}, AttachFile(c) PROVE IInv'
<1> DEFINE u == attachment
           s == WithPhase(Here, u, "hashing")
           i == [s.item[u] EXCEPT !.attaching = @ \cup {c}]
           t == [s EXCEPT !.item[u] = i]
<1>1. /\ Sound(Here, asked, published) /\ u \in Upload
      /\ attachment' \in Upload \cup {Nobody} /\ UNCHANGED <<server, published, asked>>
  BY Facts DEF AttachFile, IInv
<1>2. CASE Becomes(Here)
  BY <1>1, <1>2, Stays, PageStep DEF IInv
<1>3. CASE c # None /\ Becomes([s EXCEPT !.item[u].attaching = @ \cup {c}])
  <2> HIDE DEF u
  <2>1. Leads(Here, s, asked, published, {}) /\ Sound(s, asked, published)
    BY <1>1, WithPhaseLeads DEF Leads, Phase
  <2> HIDE DEF s
  <2>2. s.item[u] \in Item /\ ItemSound(s.item[u], u, u \in s.wanted, asked, published)
    BY <1>1, <2>1, Fields
  <2>3. /\ i \in Item /\ i.listed = s.item[u].listed /\ i.phase = s.item[u].phase
        /\ ItemSound(i, u, u \in s.wanted, asked, published)
    BY <1>3, <2>2 DEF Item, ItemSound
  <2>4. [s EXCEPT !.item[u].attaching = @ \cup {c}] = t
    BY <1>1, <2>1, <2>2 DEF Sound, PageState, Item
  <2> HIDE DEF i
  <2>5. Leads(s, t, asked, published, {})
    BY <1>1, <2>1, <2>3, SetItem
  <2> HIDE DEF t
  <2>6. Leads(Here, t, asked, published, {})
    BY <2>1, <2>5, Then
  <2> QED
    BY <1>1, <1>3, <2>4, <2>6, PageStep DEF IInv
<1> QED
  BY <1>2, <1>3 DEF AttachFile

LEMMA AttachedLeads ==
    ASSUME NEW a, NEW p, NEW s, Sound(s, a, p), NEW u \in Upload, NEW c \in Content
    PROVE  Leads(s, Attached(s, u, c), a, p, {})
<1>1. CASE s.item[u].phase \in Stopped
  BY <1>1, Stays DEF Attached
<1>2. CASE s.item[u].phase \notin Stopped /\ c # Original
  <2>1. Attached(s, u, c) = WithPhase(s, u, "reselect")
    BY <1>2 DEF Attached
  <2> QED
    BY <2>1, WithPhaseLeads DEF Phase
<1>3. CASE s.item[u].phase \notin Stopped /\ c = Original
  <2> DEFINE i == [s.item[u] EXCEPT !.file = c, !.phase = "waiting"]
             t == Update(s, u, i)
  <2>1. /\ i \in Item /\ i.listed = s.item[u].listed /\ i.phase # "paused"
        /\ ItemSound(i, u, u \in s.wanted, a, p)
    <3>1. s.item[u] \in Item /\ ItemSound(s.item[u], u, u \in s.wanted, a, p)
      BY Fields
    <3>2. /\ i \in Item /\ i.listed = s.item[u].listed /\ i.phase = "waiting" /\ i.file = Original
          /\ i.status = s.item[u].status /\ i.cancelling = s.item[u].cancelling
          /\ i.removing = s.item[u].removing
      BY <1>3, <3>1 DEF Item, Phase
    <3> HIDE DEF i
    <3> QED
      BY <3>1, <3>2 DEF ItemSound
  <2>2. Attached(s, u, c) = Pump(t)
    BY <1>3 DEF Attached
  <2> HIDE DEF i
  <2>3. Leads(s, t, a, p, {}) /\ Sound(t, a, p)
    BY <2>1, UpdateLeads DEF Leads
  <2> HIDE DEF t
  <2> QED
    BY <2>2, <2>3, PumpLeads, Then
<1> QED
  BY <1>1, <1>2, <1>3

LEMMA AttachEndsKeeps ==
    ASSUME IInv, NEW u \in Upload, NEW c \in Content, AttachEnds(u, c)
    PROVE  IInv'
<1> DEFINE i == [item[u] EXCEPT !.attaching = @ \ {c}]
           s == [Here EXCEPT !.item[u] = i]
<1>1. /\ Sound(Here, asked, published)
      /\ item[u] \in Item /\ ItemSound(item[u], u, u \in wanted, asked, published)
  BY Facts
<1>2. /\ i \in Item /\ i.listed = item[u].listed /\ i.phase = item[u].phase
      /\ ItemSound(i, u, u \in wanted, asked, published)
  BY <1>1 DEF Item, ItemSound
<1>3. [Here EXCEPT !.item[u].attaching = @ \ {c}] = s
  BY <1>1, HereFields DEF Sound, PageState, Item
<1>4. Leads(Here, s, asked, published, {}) /\ Sound(s, asked, published)
  <2> HIDE DEF i
  <2> QED
    BY <1>1, <1>2, HereFields, SetItem DEF Leads
<1> HIDE DEF s
<1>5. Leads(Here, Attached(s, u, c), asked, published, {})
  BY <1>4, AttachedLeads, Then
<1>6. /\ Becomes(Attached(s, u, c)) \/ Becomes(s)
      /\ UNCHANGED <<attachment, server, published, asked>>
  BY <1>3 DEF AttachEnds
<1> QED
  BY <1>4, <1>5, <1>6, QuietStep

LEMMA PauseKeeps == ASSUME IInv, NEW u \in Upload, Pause(u) PROVE IInv'
<1> DEFINE t == WithPhase(Here, u, "paused")
<1>1. /\ Becomes(Abort(t, u)) /\ attachment' = attachment /\ UNCHANGED <<server, published>>
      /\ asked \subseteq asked' /\ asked' \subseteq Upload
  BY DEF Pause, IInv
<1>2. u \in asked' \/ NoneAsks(Here, u)
  BY HereFields DEF Pause, NoneAsks
<1>3. ASSUME Sound(Here, asked', published) PROVE Leads(Here, Abort(t, u), asked', published, {})
  <2>1. Leads(Here, t, asked', published, {}) /\ Sound(t, asked', published)
    BY <1>2, <1>3, WithPhaseLeads DEF Leads, Phase
  <2> HIDE DEF t
  <2> QED
    BY <2>1, AbortLeads, Then
<1> HIDE DEF t
<1> QED
  BY <1>1, <1>3, AskedStep

LEMMA ResumeKeeps == ASSUME IInv, NEW u \in Upload, Resume(u) PROVE IInv'
<1> DEFINE t == WithPhase(Here, u, "waiting")
<1>1. Leads(Here, t, asked, published, {}) /\ Sound(t, asked, published)
  BY Facts, WithPhaseLeads DEF Leads, Phase
<1>2. Becomes(Pump(t)) /\ UNCHANGED <<attachment, server, published, asked>>
  BY DEF Resume
<1> HIDE DEF t
<1>3. Leads(Here, Pump(t), asked, published, {})
  BY <1>1, PumpLeads, Then
<1> QED
  BY <1>2, <1>3, QuietStep

LEMMA CancelKeeps == ASSUME IInv, NEW u \in Upload, Cancel(u) PROVE IInv'
<1>1. /\ Becomes(CancelStarts(Here, u)) /\ attachment' = attachment /\ UNCHANGED <<server, published>>
      /\ u \in asked' /\ asked \subseteq asked' /\ asked' \subseteq Upload
  BY DEF Cancel, IInv
<1>2. ASSUME Sound(Here, asked', published) PROVE Leads(Here, CancelStarts(Here, u), asked', published, {})
  BY <1>1, <1>2, CancelStartsLeads
<1> QED
  BY <1>1, <1>2, AskedStep

LEMMA RemoveKeeps == ASSUME IInv, NEW u \in Upload, Remove(u) PROVE IInv'
<1> DEFINE i == [item[u] EXCEPT !.removing = TRUE]
           t == [Here EXCEPT !.item[u] = i]
<1>1. /\ attachment' = attachment /\ UNCHANGED <<server, published>>
      /\ u \in asked' /\ asked \subseteq asked' /\ asked' \subseteq Upload
  BY DEF Remove, IInv
<1>2. CASE Becomes(Leaves(Here, u))
  <2>1. ASSUME Sound(Here, asked', published) PROVE Leads(Here, Leaves(Here, u), asked', published, {})
    BY <1>1, <2>1, LeavesLeads
  <2> QED
    BY <1>1, <1>2, <2>1, AskedStep
<1>3. CASE Becomes(CancelStarts([Here EXCEPT !.item[u].removing = TRUE], u))
  <2>1. [Here EXCEPT !.item[u].removing = TRUE] = t
    BY Facts, HereFields DEF Sound, PageState, Item
  <2>2. ASSUME Sound(Here, asked', published) PROVE Leads(Here, CancelStarts(t, u), asked', published, {})
    <3>1. item[u] \in Item /\ ItemSound(item[u], u, u \in wanted, asked', published)
      BY <2>2, Fields, HereFields
    <3>2. /\ i \in Item /\ i.listed = item[u].listed /\ i.phase = item[u].phase
          /\ ItemSound(i, u, u \in wanted, asked', published)
      BY <1>1, <3>1, ZenonT(40) DEF Item, ItemSound
    <3>3. Leads(Here, t, asked', published, {}) /\ Sound(t, asked', published)
      <4> HIDE DEF i
      <4> QED
        BY <2>2, <3>2, HereFields, SetItem DEF Leads
    <3> HIDE DEF t
    <3> QED
      BY <1>1, <3>3, CancelStartsLeads, Then
  <2> HIDE DEF t
  <2> QED
    BY <1>1, <1>3, <2>1, <2>2, AskedStep
<1> QED
  BY <1>2, <1>3 DEF Remove

LEMMA ReloadKeeps == ASSUME IInv, Reload PROVE IInv'
<1> DEFINE t == [item |-> [u \in Upload |-> Restored(u)], run |-> [w \in Worker |-> Idle],
                 wanted |-> stored, leaving |-> {}, foreign |-> foreign]
<1>1. ASSUME NEW u \in Upload
      PROVE  Restored(u) \in Item /\ ItemSound(Restored(u), u, u \in stored, asked, published)
  <2>1. NewItem \in Item
    BY QueueAssumption DEF NewItem, Item, Phase
  <2>2. /\ Restored(u) \in Item /\ (u \in stored => Restored(u).listed)
        /\ Restored(u).phase \in {"reselect", "waiting", "cancelled"}
        /\ Restored(u).file = None /\ Restored(u).status = None
        /\ Restored(u).cancelling = "no" /\ Restored(u).removing = FALSE
    <3>1. CASE u \in stored
      <4>1. /\ Restored(u) = [NewItem EXCEPT !.listed = TRUE, !.phase = "reselect", !.sha256 = TRUE]
            /\ "reselect" \in Phase
        BY <3>1 DEF Restored, Phase
      <4> QED
        BY <2>1, <4>1, ZenonT(40) DEF NewItem, Item
    <3>2. CASE u \notin stored /\ item[u] = NewItem
      <4>1. Restored(u) = NewItem
        BY <3>2 DEF Restored
      <4> QED
        BY <2>1, <3>2, <4>1 DEF NewItem, Item
    <3>3. CASE u \notin stored /\ item[u] # NewItem
      <4>1. Restored(u) = [NewItem EXCEPT !.phase = "cancelled"] /\ "cancelled" \in Phase
        BY <3>3 DEF Restored, Phase, Terminal
      <4> QED
        BY <2>1, <3>3, <4>1 DEF NewItem, Item
    <3> QED
      BY <3>1, <3>2, <3>3
  <2> QED
    BY <2>2, QueueAssumption DEF ItemSound
<1>2. Idle \in Run
  BY QueueAssumption DEF Idle, Run, Part
<1>3. stored \subseteq Upload /\ wanted \subseteq Upload /\ foreign = {}
  BY Facts, HereFields, Fields DEF IInv
<1>4. Sound(t, asked, published)
  <2>1. t \in PageState
    BY <1>1, <1>2, <1>3 DEF PageState
  <2> QED
    BY <1>1, <1>3, <2>1 DEF Sound, RunSound, Idle
<1>5. Here' = t
  BY DEF Reload, Here, history
<1>6. /\ UNCHANGED <<stored, server, published, asked>> /\ attachment' = Nobody
      /\ wanted' = stored /\ lost' = lost \cup (wanted \ stored)
  BY DEF Reload, history
<1>7. ServerSound(server, stored \cup lost', asked, published)
  BY <1>6 DEF IInv, ServerSound
<1>8. \A u \in stored : Accounted(t, u)
  BY <1>3 DEF Accounted, Restored
<1> HIDE DEF t
<1> QED
  BY <1>3, <1>4, <1>5, <1>6, <1>7, <1>8 DEF IInv

-----------------------------------------------------------------------------
LEMMA InitKeeps == Init => IInv
<1> SUFFICES ASSUME Init PROVE IInv
  OBVIOUS
<1>1. NewItem \in Item /\ Idle \in Run
  BY QueueAssumption DEF NewItem, Item, Phase, Idle, Run, Part
<1>2. Here \in PageState
  BY <1>1 DEF Init, Here, PageState
<1>3. \A u \in Upload : ItemSound(item[u], u, u \in wanted, asked, published)
  BY QueueAssumption DEF Init, ItemSound, NewItem
<1>4. \A w \in Worker : RunSound(run[w], item, wanted, asked)
  BY DEF Init, RunSound, Idle
<1>5. Sound(Here, asked, published)
  BY <1>2, <1>3, <1>4, HereFields DEF Sound, Init
<1>6. server \in [Upload -> Transfer] /\ ServerSound(server, wanted \cup lost, asked, published)
  BY DEF Init, Transfer, Open, ServerSound
<1> QED
  BY <1>5, <1>6 DEF Init, IInv

LEMMA RunStepKeeps == ASSUME IInv, NEW w \in Worker, RunStep(w) PROVE IInv'
BY HashEndsKeeps, LookupKeeps, CreateKeeps, CreateRefusedKeeps, QuestionFailsKeeps,
   SliceEndsKeeps, PutDoneKeeps, PutRefusedKeeps, PutLostKeeps, RecoverKeeps,
   CompleteKeeps, CompleteRefusedKeeps, CompleteLostKeeps DEF RunStep

LEMMA UserStepKeeps == ASSUME IInv, UserStep PROVE IInv'
BY AddKeeps, OpenPickerKeeps, PauseKeeps, ResumeKeeps, CancelKeeps, RemoveKeeps,
   AttachFileKeeps, ReloadKeeps DEF UserStep

LEMMA NextKeeps == IInv /\ [Next]_vars => IInv'
<1> SUFFICES ASSUME IInv, [Next]_vars PROVE IInv'
  OBVIOUS
<1>1. CASE \E w \in Worker : RunStep(w)
  BY <1>1, RunStepKeeps
<1>2. CASE \E w \in Worker : Arrives(w)
  BY <1>2, ArrivesKeeps
<1>3. CASE \E u \in Upload : CancelStep(u)
  BY <1>3, CancelLookupKeeps, CancelDeletesKeeps, CancelChecksKeeps DEF CancelStep
<1>4. CASE \E u \in Upload : DeleteArrives(u)
  BY <1>4, DeleteArrivesKeeps
<1>5. CASE \E u \in Upload : Reap(u)
  BY <1>5, ReapKeeps
<1>6. CASE \E u \in Upload, c \in Content : AttachEnds(u, c)
  BY <1>6, AttachEndsKeeps
<1>7. CASE UserStep
  BY <1>7, UserStepKeeps
<1>9. CASE \E u \in Upload : Reconcile(u)
  BY <1>9, ReconcileKeeps
<1>10. CASE \E u \in Upload : RecordLands(u) \/ EraseLands(u)
  BY <1>10, RecordLandsKeeps, EraseLandsKeeps
<1>8. CASE UNCHANGED vars
  BY <1>8, ServerStep DEF vars, page, browser, history, IInv
<1> QED
  BY <1>1, <1>2, <1>3, <1>4, <1>5, <1>6, <1>7, <1>8, <1>9, <1>10 DEF Next

LEMMA IInvHolds == Spec => []IInv
<1>1. Init => IInv
  BY InitKeeps
<1>2. IInv /\ [Next]_vars => IInv'
  BY NextKeeps
<1> QED
  BY <1>1, <1>2, PTL DEF Spec

-----------------------------------------------------------------------------
(* The queue's, the runs' and the server's state keep their types.         *)
THEOREM TypeCorrect == Spec => []TypeOK
<1>1. IInv => TypeOK
  BY HereFields DEF IInv, Sound, PageState, TypeOK
<1> QED
  BY <1>1, IInvHolds, PTL

(* However many files are chosen again after a reload, and whenever their  *)
(* digests become known, only bytes of the file an upload was begun with   *)
(* are sent for it (attachFile, run).                                      *)
THEOREM OriginalIsSent == Spec => []OnlyOriginalWritten
<1>1. IInv => OnlyOriginalWritten
  BY HereFields DEF IInv, Sound, OnlyOriginalWritten
<1> QED
  BY <1>1, IInvHolds, PTL

(* An upload shown as completed has its name at the destination, for any   *)
(* crossing of runs, cancellations and lost answers (run, cancel).         *)
THEOREM CompletionIsTrue == Spec => []CompletedIsPublished
<1>1. IInv => CompletedIsPublished
  BY Facts DEF ItemSound, CompletedIsPublished
<1> QED
  BY <1>1, IInvHolds, PTL

(* While the server keeps a transfer the page wants its record in the      *)
(* browser, unless the user wanted the transfer gone or closed the page    *)
(* before the record had landed; and the browser is asked to forget what   *)
(* it has recorded of an item that leaves the queue, and not asked to      *)
(* record it again (persist, remove).                                      *)
THEOREM RecordIsKept == Spec => []RecordKept
<1>1. IInv => RecordKept
  <2> SUFFICES ASSUME IInv PROVE RecordKept
    OBVIOUS
  <2>1. \A u \in stored : item[u].listed \/ u \in leaving
    BY HereFields DEF IInv, Accounted
  <2>2. \A u \in Upload : server[u].state \in Open => u \in wanted \cup asked \cup lost
    BY DEF IInv, ServerSound
  <2> QED
    BY <2>1, <2>2 DEF RecordKept
<1> QED
  BY <1>1, IInvHolds, PTL

(* A transfer is cancelled at the server only after the user asked for it, *)
(* or paused it while a run was asking for its state (run, cancel).        *)
THEOREM CancelledAsAsked == Spec => []CancelledOnRequest
<1>1. IInv => CancelledOnRequest
  BY DEF IInv, ServerSound, CancelledOnRequest
<1> QED
  BY <1>1, IInvHolds, PTL
-----------------------------------------------------------------------------
(* Who waits for whom.  An upload waits with its file, and one that is     *)
(* uploaded has a run; the promise kept of its state, and the one a        *)
(* cancellation awaits, is of a run that asks.  A run that waits for a     *)
(* cancellation waits for one under way, and is the only one to wait for   *)
(* it.  No item is ready while a worker is free.                           *)
Runs(s, w, u) == w \in Worker /\ s.run[w].pc # "idle" /\ s.run[w].of = u
Creates(s, w, u) == w \in Worker /\ s.run[w].pc \in {"create", "recheck"} /\ s.run[w].of = u
Halts(s, w, u) == s.run[w].pc = "cancelling" /\ s.run[w].of = u

ItemStaffed(s, u) ==
    LET i == s.item[u] IN
    /\ i.listed /\ i.phase = "waiting" => i.file # None
    /\ i.listed /\ i.phase = "uploading" => \E w \in Worker : Runs(s, w, u)
    /\ i.resolving # Nobody => Creates(s, i.resolving, u)
    /\ i.cancelling = "await" => Creates(s, i.awaited, u)
    /\ \A w, x \in Worker : Halts(s, w, u) /\ Halts(s, x, u) => w = x
    /\ i.cancelling = "no" => \A w \in Worker : ~Halts(s, w, u)

Core(s) ==
    /\ s \in PageState
    /\ \A w \in Worker : s.run[w].pc # "idle" => s.run[w].of \in Upload
    /\ \A u \in Upload : ItemStaffed(s, u)

ReadyItem(i) == i.listed /\ i.phase = "waiting" /\ i.file # None
FreeBut(s, w) == Free(s) \ {w}
Tight(s) == Ready(s) = {} \/ Free(s) = {}
NearlyTight(s) == (\A u, v \in Ready(s) : u = v) \/ (\A w, x \in Free(s) : w = x)
Staffed(s) == Core(s) /\ Tight(s)

\* Neither the upload nor a cancellation counts on a run's question any more.
Unawaited(s, w) == \A u \in Upload :
    s.item[u].resolving # w /\ ~(s.item[u].cancelling = "await" /\ s.item[u].awaited = w)

\* A run may end without leaving an upload behind.
Lets(s, w) == s.run[w].pc = "idle" \/ LET i == s.item[s.run[w].of] IN ~(i.listed /\ i.phase = "uploading")

\* A run stays with its upload.
GoesOn(s, w, r) == r.pc # "idle" /\ r.of = s.run[w].of

\* From s to t: the runs that ask stay as they are, but for those of W, and no
\* cancellation comes to await one that none counts on.
Spares(s, t, W) == \A w \in Worker \ W : s.run[w].pc \in Asking =>
    t.run[w] = s.run[w] /\ (Unawaited(s, w) => Unawaited(t, w))
Staffs(s, t, W) == Staffed(t) /\ Spares(s, t, W)

LEMMA StaffsSelf == ASSUME NEW s, Staffed(s), NEW W PROVE Staffs(s, s, W)
BY DEF Staffs, Spares

LEMMA SparesThen ==
    ASSUME NEW W, NEW r, NEW s, NEW t, Spares(r, s, W), Spares(s, t, W)
    PROVE  Spares(r, t, W)
BY DEF Spares

LEMMA StaffsThen ==
    ASSUME NEW W, NEW r, NEW s, NEW t, Staffs(r, s, W), Staffs(s, t, W)
    PROVE  Staffs(r, t, W)
BY SparesThen DEF Staffs

LEMMA StaffsWider == ASSUME NEW W, NEW s, NEW t, Staffs(s, t, {}) PROVE Staffs(s, t, W)
BY DEF Staffs, Spares

LEMMA StaffsNarrower ==
    ASSUME NEW w, NEW s, NEW t, Staffs(s, t, {w}), s.run[w].pc \notin Asking
    PROVE  Staffs(s, t, {})
BY DEF Staffs, Spares

\* Only a run that creates is counted on.
LEMMA Uncounted ==
    ASSUME NEW s, Core(s), NEW w \in Worker, s.run[w].pc \notin {"create", "recheck"}
    PROVE  Unawaited(s, w)
<1>1. w # Nobody
  BY DEF Worker, Nobody
<1> QED  BY <1>1 DEF Core, ItemStaffed, Creates, Unawaited

\* t differs from s in one item, or in one run.
Alters(s, t, u, i) == t \in PageState /\ t.run = s.run /\ t.item = [s.item EXCEPT ![u] = i]
Turns(s, t, w, r) == t \in PageState /\ t.item = s.item /\ t.run = [s.run EXCEPT ![w] = r]

\* One item changes.
LEMMA ItemChanges ==
    ASSUME NEW s, Core(s), NEW u \in Upload, NEW i \in Item, NEW t, Alters(s, t, u, i), NEW W,
           i.listed /\ i.phase = "waiting" => i.file # None,
           i.listed /\ i.phase = "uploading" => \E w \in Worker : Runs(s, w, u),
           \/ i.resolving \in {Nobody, s.item[u].resolving}
           \/ i.resolving \in W /\ Creates(s, i.resolving, u),
           i.cancelling = "await" =>
               /\ i.awaited # Nobody
               /\ \/ i.awaited = s.item[u].resolving
                  \/ s.item[u].cancelling = "await" /\ i.awaited = s.item[u].awaited,
           i.cancelling = "no" => \A w \in Worker : ~Halts(s, w, u)
    PROVE  /\ Core(t) /\ Spares(s, t, W) /\ t.item[u] = i /\ Free(t) = Free(s)
           /\ Ready(t) \ {u} = Ready(s) \ {u} /\ (u \in Ready(t) <=> ReadyItem(i))
           /\ Tight(s) => NearlyTight(t)
           /\ Tight(s) /\ (ReadyItem(i) => ReadyItem(s.item[u])) => Tight(t)
<1> USE DEF Alters
<1>1. t.item[u] = i /\ \A v \in Upload : v # u => t.item[v] = s.item[v]
  BY DEF Core, PageState
<1>2. ASSUME NEW v \in Upload PROVE ItemStaffed(t, v)
  <2>1. ItemStaffed(s, v)
    BY DEF Core
  <2>2. CASE v # u
    <3>1. t.item[v] = s.item[v]
      BY <1>1, <2>2
    <3> QED  BY <2>1, <3>1, SMTT(30) DEF ItemStaffed, Runs, Creates, Halts
  <2>3. CASE v = u
    BY <1>1, <2>1, <2>3, SMTT(30) DEF ItemStaffed, Runs, Creates, Halts
  <2> QED  BY <2>2, <2>3
<1>3. Core(t)
  BY <1>2 DEF Core
<1>4. ASSUME NEW w \in Worker \ W, Unawaited(s, w) PROVE Unawaited(t, w)
  <2>1. w # Nobody
    BY DEF Worker, Nobody
  <2> QED  BY <1>1, <1>4, <2>1 DEF Unawaited
<1>5. Spares(s, t, W)
  BY <1>4 DEF Spares
<1>6. Free(t) = Free(s)
  BY DEF Free
<1>7. Ready(t) \ {u} = Ready(s) \ {u} /\ (u \in Ready(t) <=> ReadyItem(i)) /\ (u \in Ready(s) <=> ReadyItem(s.item[u]))
  BY <1>1 DEF Ready, ReadyItem
<1>8. Tight(s) => NearlyTight(t)
  BY <1>6, <1>7 DEF Tight, NearlyTight
<1>9. Tight(s) /\ (ReadyItem(i) => ReadyItem(s.item[u])) => Tight(t)
  BY <1>6, <1>7 DEF Tight
<1> QED  BY <1>1, <1>3, <1>5, <1>6, <1>7, <1>8, <1>9

\* One run changes; one that waits for a cancellation is the first.
LEMMA RunChanges ==
    ASSUME NEW s, Core(s), NEW w \in Worker, NEW r \in Run, NEW t, Turns(s, t, w, r),
           r.pc # "idle" => r.of \in Upload,
           r.pc = "cancelling" =>
               s.item[r.of].cancelling # "no" /\ \A x \in Worker : ~Halts(s, x, r.of),
           Unawaited(s, w) \/ (r.pc \in {"create", "recheck"} /\ r.of = s.run[w].of),
           Lets(s, w) \/ GoesOn(s, w, r)
    PROVE  /\ Core(t) /\ Spares(s, t, {w}) /\ t.run[w] = r
           /\ Ready(t) = Ready(s) /\ (r.pc # "idle" => Free(t) = FreeBut(s, w))
           /\ Tight(s) => NearlyTight(t)
           /\ Tight(s) /\ r.pc # "idle" => Tight(t)
<1> USE DEF Turns
<1>1. t.run[w] = r /\ \A x \in Worker : x # w => t.run[x] = s.run[x]
  BY DEF Core, PageState
<1>2. ASSUME NEW u \in Upload PROVE ItemStaffed(t, u)
  <2>1. ItemStaffed(s, u)
    BY DEF Core
  <2>2. s.item[u].listed /\ s.item[u].phase = "uploading" => \E x \in Worker : Runs(t, x, u)
    <3> USE DEF GoesOn
    <3> SUFFICES ASSUME s.item[u].listed /\ s.item[u].phase = "uploading" PROVE \E x \in Worker : Runs(t, x, u)
      OBVIOUS
    <3>1. PICK x \in Worker : Runs(s, x, u)
      BY <2>1 DEF ItemStaffed
    <3>2. CASE x = w
      BY <1>1, <3>1, <3>2 DEF Runs, Lets
    <3>3. CASE x # w
      BY <1>1, <3>1, <3>3 DEF Runs
    <3> QED  BY <3>2, <3>3
  <2>3. s.item[u].resolving # Nobody => Creates(t, s.item[u].resolving, u)
    BY <1>1, <2>1 DEF ItemStaffed, Creates, Unawaited
  <2>4. s.item[u].cancelling = "await" => Creates(t, s.item[u].awaited, u)
    BY <1>1, <2>1 DEF ItemStaffed, Creates, Unawaited
  <2>5. \A x \in Worker : Halts(t, x, u) =>
            Halts(s, x, u) \/ (x = w /\ s.item[u].cancelling # "no" /\ \A y \in Worker : ~Halts(s, y, u))
    BY <1>1 DEF Halts
  <2> QED  BY <2>1, <2>2, <2>3, <2>4, <2>5 DEF ItemStaffed
<1>3. Core(t)
  BY <1>1, <1>2 DEF Core
<1>4. Spares(s, t, {w})
  BY <1>1 DEF Spares, Unawaited
<1>5. Ready(t) = Ready(s) /\ Free(t) = (Free(s) \ {w}) \cup (IF r.pc = "idle" THEN {w} ELSE {})
  BY <1>1 DEF Ready, Free
<1>6. r.pc # "idle" => Free(t) = FreeBut(s, w)
  BY <1>5 DEF FreeBut
<1> QED  BY <1>1, <1>3, <1>4, <1>5, <1>6 DEF Tight, NearlyTight
(* The waits for promises and cancellations are the same in s and t.       *)
SameWaits(s, t) == \A u \in Upload :
    /\ t.item[u].resolving = s.item[u].resolving
    /\ t.item[u].cancelling = s.item[u].cancelling /\ t.item[u].awaited = s.item[u].awaited

\* What an item may become whose waits stay as they are.
Fits(s, u, i) ==
    /\ i \in Item
    /\ i.resolving = s.item[u].resolving
    /\ i.cancelling = s.item[u].cancelling /\ i.awaited = s.item[u].awaited
    /\ i.listed /\ i.phase = "waiting" => i.file # None
    /\ i.listed /\ i.phase = "uploading" => \E w \in Worker : Runs(s, w, u)

LEMMA ItemSet ==
    ASSUME NEW s \in PageState, NEW u \in Upload, NEW i \in Item
    PROVE  LET t == [s EXCEPT !.item[u] = i] IN
           /\ Alters(s, t, u, i) /\ t.item[u] = i
           /\ t.wanted = s.wanted /\ t.foreign = s.foreign
BY DEF PageState, Alters

LEMMA RunSet ==
    ASSUME NEW s \in PageState, NEW w \in Worker, NEW r \in Run
    PROVE  LET t == [s EXCEPT !.run[w] = r] IN
           Turns(s, t, w, r) /\ t.run[w] = r
BY DEF PageState, Turns

LEMMA RecordedIs ==
    ASSUME NEW s \in PageState, NEW u \in Upload
    PROVE  Recorded(s, u) \in PageState /\ Recorded(s, u).item = s.item /\ Recorded(s, u).run = s.run
BY DEF PageState, Recorded

LEMMA UpdateIs ==
    ASSUME NEW s \in PageState, NEW u \in Upload, NEW i \in Item
    PROVE  Alters(s, Update(s, u, i), u, IF s.item[u].listed THEN i ELSE s.item[u])
<1> DEFINE t == [s EXCEPT !.item[u] = i]
<1>1. t \in PageState /\ t.item = [s.item EXCEPT ![u] = i] /\ t.run = s.run
  BY ItemSet DEF Alters
<1>2. Update(s, u, i) = IF ~s.item[u].listed THEN s ELSE IF i.sha256 THEN Recorded(t, u) ELSE t
  BY DEF Update
<1> HIDE DEF t
<1>3. s.item = [s.item EXCEPT ![u] = s.item[u]]
  BY DEF PageState
<1> QED
  BY <1>1, <1>2, <1>3, RecordedIs DEF Alters

\* An item changes and what waits does not.
LEMMA FitsStaffs ==
    ASSUME NEW s, Core(s), NEW u \in Upload, NEW i, Fits(s, u, i), NEW t, Alters(s, t, u, i)
    PROVE  /\ Core(t) /\ Spares(s, t, {}) /\ SameWaits(s, t)
           /\ t.item[u] = i /\ Free(t) = Free(s)
           /\ Ready(t) \ {u} = Ready(s) \ {u} /\ (u \in Ready(t) <=> ReadyItem(i))
           /\ Tight(s) => NearlyTight(t)
           /\ Tight(s) /\ (ReadyItem(i) => ReadyItem(s.item[u])) => Tight(t)
<1>1. ItemStaffed(s, u) /\ s.item \in [Upload -> Item]
  BY DEF Core, PageState
<1>2. Nobody \notin Worker
  BY DEF Nobody, Worker
<1>3. i.cancelling = "await" => i.awaited # Nobody
  BY <1>1, <1>2 DEF ItemStaffed, Creates, Fits
<1>4. SameWaits(s, t)
  <2> SUFFICES ASSUME NEW v \in Upload
               PROVE  /\ t.item[v].resolving = s.item[v].resolving
                      /\ t.item[v].cancelling = s.item[v].cancelling /\ t.item[v].awaited = s.item[v].awaited
    BY DEF SameWaits
  <2> QED
    BY <1>1 DEF Fits, Alters
<1>5. i.cancelling = "no" => \A w \in Worker : ~Halts(s, w, u)
  BY <1>1 DEF ItemStaffed, Fits
<1>6. i \in Item /\ (i.listed /\ i.phase = "waiting" => i.file # None)
      /\ (i.listed /\ i.phase = "uploading" => \E w \in Worker : Runs(s, w, u))
      /\ i.resolving \in {Nobody, s.item[u].resolving}
  BY DEF Fits
<1>7. i.cancelling = "await" =>
          /\ i.awaited # Nobody
          /\ \/ i.awaited = s.item[u].resolving
             \/ s.item[u].cancelling = "await" /\ i.awaited = s.item[u].awaited
  BY <1>3 DEF Fits
<1>8. /\ Core(t) /\ Spares(s, t, {}) /\ t.item[u] = i /\ Free(t) = Free(s)
      /\ Ready(t) \ {u} = Ready(s) \ {u} /\ (u \in Ready(t) <=> ReadyItem(i))
      /\ Tight(s) => NearlyTight(t)
      /\ Tight(s) /\ (ReadyItem(i) => ReadyItem(s.item[u])) => Tight(t)
  BY <1>5, <1>6, <1>7, ItemChanges
<1> QED
  BY <1>4, <1>8

LEMMA UpdateStaffs ==
    ASSUME NEW s, Core(s), NEW u \in Upload, NEW i, Fits(s, u, i), i.listed = s.item[u].listed
    PROVE  LET t == Update(s, u, i) IN
           /\ Core(t) /\ Spares(s, t, {}) /\ SameWaits(s, t) /\ t.run = s.run
           /\ t.item[u] = (IF s.item[u].listed THEN i ELSE s.item[u]) /\ Free(t) = Free(s)
           /\ Ready(t) \ {u} = Ready(s) \ {u}
           /\ u \in Ready(t) <=> ReadyItem(i)
           /\ Tight(s) => NearlyTight(t)
           /\ Tight(s) /\ (ReadyItem(i) => ReadyItem(s.item[u])) => Tight(t)
<1> DEFINE t == Update(s, u, i)
           j == IF s.item[u].listed THEN i ELSE s.item[u]
<1>1. s \in PageState /\ s.item[u] \in Item /\ ItemStaffed(s, u)
  BY DEF Core, PageState
<1>2. Alters(s, t, u, j) /\ t.run = s.run
  BY <1>1, UpdateIs DEF Fits, Alters
<1>3. Fits(s, u, j)
  BY <1>1 DEF Fits, ItemStaffed
<1>4. ReadyItem(j) <=> ReadyItem(i)
  BY DEF ReadyItem
<1> HIDE DEF t, j
<1>5. /\ Core(t) /\ Spares(s, t, {}) /\ SameWaits(s, t)
      /\ t.item[u] = j /\ Free(t) = Free(s)
      /\ Ready(t) \ {u} = Ready(s) \ {u} /\ (u \in Ready(t) <=> ReadyItem(j))
      /\ Tight(s) => NearlyTight(t)
      /\ Tight(s) /\ (ReadyItem(j) => ReadyItem(s.item[u])) => Tight(t)
  BY <1>2, <1>3, FitsStaffs
<1> QED
  BY <1>2, <1>4, <1>5 DEF t, j

\* An item changes and is not ready but if it was.
LEMMA UpdateKeepsStaffed ==
    ASSUME NEW s, Staffed(s), NEW u \in Upload, NEW i, Fits(s, u, i), i.listed = s.item[u].listed,
           i.phase = "waiting" => i.phase = s.item[u].phase /\ i.file = s.item[u].file
    PROVE  LET t == Update(s, u, i) IN
           /\ Staffs(s, t, {}) /\ SameWaits(s, t) /\ t.run = s.run
           /\ t.item[u] = IF s.item[u].listed THEN i ELSE s.item[u]
<1>1. ReadyItem(i) => ReadyItem(s.item[u])
  BY DEF ReadyItem
<1> QED
  BY <1>1, UpdateStaffs DEF Staffs, Staffed

LEMMA WithPhaseStaffs ==
    ASSUME NEW s, Staffed(s), NEW u \in Upload, NEW phase \in Phase \ {"waiting", "uploading"}
    PROVE  LET t == WithPhase(s, u, phase) IN
           /\ Staffs(s, t, {}) /\ SameWaits(s, t) /\ t.run = s.run
           /\ t.item[u] = IF s.item[u].listed THEN [s.item[u] EXCEPT !.phase = phase] ELSE s.item[u]
<1> DEFINE i == [s.item[u] EXCEPT !.phase = phase]
<1>1. s.item[u] \in Item
  BY DEF Staffed, Core, PageState
<1>2. Fits(s, u, i) /\ i.listed = s.item[u].listed /\ i.phase # "waiting"
  BY <1>1 DEF Fits, Item
<1>3. WithPhase(s, u, phase) = Update(s, u, i)
  BY DEF WithPhase
<1> HIDE DEF i
<1>4. /\ Staffs(s, Update(s, u, i), {}) /\ SameWaits(s, Update(s, u, i)) /\ Update(s, u, i).run = s.run
      /\ Update(s, u, i).item[u] = IF s.item[u].listed THEN i ELSE s.item[u]
  BY <1>2, UpdateKeepsStaffed
<1> QED
  BY <1>3, <1>4 DEF i

LEMMA WithStatusStaffs ==
    ASSUME NEW s, Staffed(s), NEW u \in Upload, NEW state \in State
    PROVE  LET t == WithStatus(s, u, state) IN
           Staffs(s, t, {}) /\ SameWaits(s, t) /\ t.run = s.run
<1> DEFINE i == [s.item[u] EXCEPT !.status = state]
<1>1. s.item[u] \in Item /\ ItemStaffed(s, u)
  BY DEF Staffed, Core, PageState
<1>2. /\ Fits(s, u, i) /\ i.listed = s.item[u].listed
      /\ i.phase = s.item[u].phase /\ i.file = s.item[u].file
  BY <1>1 DEF Fits, Item, ItemStaffed
<1>3. WithStatus(s, u, state) = Update(s, u, i)
  BY DEF WithStatus
<1> HIDE DEF i
<1> QED
  BY <1>2, <1>3, UpdateKeepsStaffed

LEMMA ClosesStaffs ==
    ASSUME NEW s, Staffed(s), NEW u \in Upload, NEW state \in Terminal
    PROVE  LET t == Closes(s, u, state) IN
           /\ Staffs(s, t, {}) /\ SameWaits(s, t) /\ t.run = s.run
           /\ t.item[u] = IF s.item[u].listed THEN [s.item[u] EXCEPT !.status = state, !.phase = state]
                          ELSE s.item[u]
<1> DEFINE i == [s.item[u] EXCEPT !.status = state, !.phase = state]
<1>1. s.item[u] \in Item
  BY DEF Staffed, Core, PageState
<1>2. Fits(s, u, i) /\ i.listed = s.item[u].listed /\ i.phase # "waiting"
  <2>1. state \in Phase \ {"waiting", "uploading"} /\ state \in State
    BY DEF Terminal, Phase, State
  <2> QED
    BY <1>1, <2>1 DEF Fits, Item
<1>3. Closes(s, u, state) = Update(s, u, i)
  BY DEF Closes
<1> HIDE DEF i
<1>4. /\ Staffs(s, Update(s, u, i), {}) /\ SameWaits(s, Update(s, u, i)) /\ Update(s, u, i).run = s.run
      /\ Update(s, u, i).item[u] = IF s.item[u].listed THEN i ELSE s.item[u]
  BY <1>2, UpdateKeepsStaffed
<1> QED
  BY <1>3, <1>4 DEF i

LEMMA LetGoStaffs ==
    ASSUME NEW s, Staffed(s), NEW u \in Upload, NEW w \in Worker
    PROVE  Staffs(s, LetGo(s, u, w), {}) /\ LetGo(s, u, w).run = s.run /\ SameWaits(s, LetGo(s, u, w))
<1> DEFINE i == [s.item[u] EXCEPT !.controller = IF @ = w THEN Nobody ELSE @]
           t == [s EXCEPT !.item[u] = i]
<1>1. s \in PageState /\ s.item[u] \in Item /\ ItemStaffed(s, u)
  BY DEF Staffed, Core, PageState
<1>2. LetGo(s, u, w) = t
  BY <1>1 DEF LetGo, PageState
<1>3. /\ i \in Item /\ Fits(s, u, i)
      /\ ReadyItem(i) => ReadyItem(s.item[u])
  BY <1>1 DEF Fits, Item, ItemStaffed, ReadyItem
<1> HIDE DEF i
<1>4. Alters(s, t, u, i) /\ t.run = s.run
  BY <1>1, <1>3, ItemSet DEF Alters
<1> HIDE DEF t
<1> QED
  BY <1>2, <1>3, <1>4, FitsStaffs DEF Staffs, Staffed
-----------------------------------------------------------------------------
\* A run that stays with its upload may turn to anything nobody counts on.
LEMMA RunStays ==
    ASSUME NEW s, Core(s), NEW w \in Worker, s.run[w].pc # "idle", Unawaited(s, w),
           NEW r \in Run, r.pc # "cancelling", GoesOn(s, w, r), NEW t, Turns(s, t, w, r)
    PROVE  /\ Core(t) /\ Spares(s, t, {w}) /\ t.run[w] = r
           /\ Ready(t) = Ready(s) /\ Free(t) = Free(s)
           /\ Tight(s) => Tight(t)
<1>1. r.of \in Upload /\ r.pc # "idle"
  BY DEF Core, GoesOn
<1>2. FreeBut(s, w) = Free(s)
  BY DEF FreeBut, Free
<1>3. /\ Core(t) /\ Spares(s, t, {w}) /\ t.run[w] = r
      /\ Ready(t) = Ready(s) /\ Free(t) = FreeBut(s, w)
  BY <1>1, RunChanges, SMTT(30)
<1> QED
  BY <1>2, <1>3 DEF Tight

\* A run whose file has its digest asks for its upload's state.
LEMMA AsksStaffs ==
    ASSUME NEW s, Core(s), NEW w \in Worker, s.run[w].pc = "hash"
    PROVE  LET t == Asks(s, s.run[w].of, w) IN
           /\ Core(t) /\ Spares(s, t, {}) /\ Free(t) = Free(s)
           /\ Ready(t) = Ready(s) \ {s.run[w].of}
<1> DEFINE u == s.run[w].of
           known == s.item[u].status = "active"
           i == [s.item[u] EXCEPT !.sha256 = TRUE]
           k == IF s.item[u].listed THEN [i EXCEPT !.phase = "uploading"] ELSE s.item[u]
           m == Update(s, u, i)
           n == [m.item[u] EXCEPT !.phase = "uploading"]
           t == WithPhase(m, u, "uploading")
           q == IF known THEN "get" ELSE "create"
           r == [s.run[w] EXCEPT !.pc = q]
           j == [k EXCEPT !.resolving = IF known THEN @ ELSE w]
           x == [s EXCEPT !.run[w] = r]
           v == [t EXCEPT !.run[w].pc = q, !.item[u].resolving = IF known THEN @ ELSE w]
           W == {w}
<1>1. /\ s \in PageState /\ u \in Upload /\ s.item[u] \in Item /\ s.run[w] \in Run
      /\ ItemStaffed(s, u) /\ "uploading" \in Phase
  BY DEF Core, PageState, Phase
<1>2. i \in Item /\ i.listed = s.item[u].listed
  BY <1>1 DEF Item
<1>3. k \in Item
  BY <1>1, <1>2 DEF Item
<1>4. m \in PageState /\ m.run = s.run /\ m.item = [s.item EXCEPT ![u] = IF s.item[u].listed THEN i ELSE s.item[u]]
  <2> HIDE DEF i
  <2> QED
    BY <1>1, <1>2, UpdateIs DEF Alters
<1>5. t \in PageState /\ t.run = s.run /\ t.item = [s.item EXCEPT ![u] = k]
  <2>1. m.item[u] = IF s.item[u].listed THEN i ELSE s.item[u]
    BY <1>1, <1>4 DEF PageState
  <2>2. n \in Item
    BY <1>1, <1>2, <2>1, ZenonT(40) DEF Item
  <2>3. t = Update(m, u, n)
    BY DEF WithPhase
  <2>4. t \in PageState /\ t.run = m.run /\ t.item = [m.item EXCEPT ![u] = IF m.item[u].listed THEN n ELSE m.item[u]]
    <3> HIDE DEF m, n
    <3> QED
      BY <1>1, <1>4, <2>2, <2>3, UpdateIs, SMTT(30) DEF Alters
  <2>5. k = IF m.item[u].listed THEN n ELSE m.item[u]
    <3>1. CASE s.item[u].listed
      BY <1>2, <2>1, <3>1
    <3>2. CASE ~s.item[u].listed
      BY <2>1, <3>2
    <3> QED
      BY <3>1, <3>2
  <2> HIDE DEF m, n, k, i
  <2> QED
    BY <1>1, <1>4, <2>4, <2>5, SMTT(30) DEF PageState
<1>6. r \in Run /\ r.of = u /\ r.pc = q
  BY <1>1 DEF Run, Asking
<1>7. /\ j \in Item /\ j.listed = s.item[u].listed
      /\ (j.listed => j.phase = "uploading")
      /\ j.resolving = IF known THEN s.item[u].resolving ELSE w
      /\ j.cancelling = s.item[u].cancelling /\ j.awaited = s.item[u].awaited
  <2>1. /\ k.listed = s.item[u].listed /\ (k.listed => k.phase = "uploading")
        /\ k.resolving = s.item[u].resolving
        /\ k.cancelling = s.item[u].cancelling /\ k.awaited = s.item[u].awaited
    BY <1>1, <1>2 DEF Item
  <2> HIDE DEF k
  <2>2. j \in Item
    BY <1>3 DEF Item
  <2>3. /\ j.listed = k.listed /\ j.phase = k.phase /\ j.cancelling = k.cancelling
        /\ j.awaited = k.awaited /\ j.resolving = IF known THEN k.resolving ELSE w
    BY <1>3 DEF Item
  <2> HIDE DEF j, known
  <2> QED
    BY <2>1, <2>2, <2>3
<1>8. Asks(s, u, w) = v
  BY DEF Asks
<1>9. v \in PageState /\ v.run = [s.run EXCEPT ![w] = r] /\ v.item = [s.item EXCEPT ![u] = j]
  <2>1. v.run = [t.run EXCEPT ![w] = [t.run[w] EXCEPT !.pc = q]]
    BY <1>1, <1>5 DEF PageState
  <2>2. v.item = [t.item EXCEPT ![u] = [t.item[u] EXCEPT !.resolving = IF known THEN @ ELSE w]]
    BY <1>1, <1>5 DEF PageState
  <2>3. t.item[u] = k
    <3> HIDE DEF t, k
    <3> QED
      BY <1>1, <1>5 DEF PageState
  <2>4. v.run = [s.run EXCEPT ![w] = r] /\ v.item = [s.item EXCEPT ![u] = j]
    <3> HIDE DEF t, k, v
    <3> QED
      BY <1>1, <1>5, <2>1, <2>2, <2>3 DEF PageState
  <2>5. v \in PageState
    <3>1. v = [t EXCEPT !.run = [s.run EXCEPT ![w] = r], !.item = [s.item EXCEPT ![u] = j]]
      <4> HIDE DEF t, k
      <4> QED
        BY <1>1, <1>5, <2>3 DEF PageState
    <3> HIDE DEF t, v, r, j
    <3> QED
      BY <1>1, <1>5, <1>6, <1>7, <3>1 DEF PageState
  <2> QED
    BY <2>4, <2>5
<1>10. /\ Core(x) /\ Spares(s, x, {w}) /\ x.run[w] = r /\ x.item = s.item
       /\ x.run = [s.run EXCEPT ![w] = r] /\ Ready(x) = Ready(s) /\ Free(x) = Free(s)
  <2>1. Unawaited(s, w) /\ r \in Run /\ r.pc # "cancelling" /\ GoesOn(s, w, r)
    BY <1>6, Uncounted DEF GoesOn
  <2> HIDE DEF r
  <2>2. Turns(s, x, w, r)
    BY <1>1, <1>6, RunSet
  <2> HIDE DEF x
  <2>3. Core(x) /\ Spares(s, x, {w}) /\ x.run[w] = r /\ Ready(x) = Ready(s) /\ Free(x) = Free(s)
    BY <2>1, <2>2, RunStays
  <2> QED
    BY <2>2, <2>3 DEF Turns
<1>11. ItemStaffed(x, u)
  BY <1>1, <1>10 DEF Core
<1>12. /\ j.listed /\ j.phase = "waiting" => j.file # None
       /\ \E y \in Worker : Runs(x, y, u)
       /\ \/ j.resolving \in {Nobody, x.item[u].resolving}
          \/ j.resolving \in W /\ Creates(x, j.resolving, u)
  <2>1. ~known => r.pc = "create"
    BY <1>6
  <2>2. Runs(x, w, u) /\ (~known => Creates(x, w, u))
    <3> HIDE DEF r, x
    <3> QED
      BY <1>6, <1>10, <2>1 DEF Runs, Creates
  <2>3. j.listed /\ j.phase = "waiting" => j.file # None
    BY <1>7
  <2> HIDE DEF x, j
  <2> QED
    BY <1>7, <1>10, <2>2, <2>3
<1>13. /\ j.cancelling = "await" =>
             /\ j.awaited # Nobody
             /\ \/ j.awaited = x.item[u].resolving
                \/ x.item[u].cancelling = "await" /\ j.awaited = x.item[u].awaited
       /\ j.cancelling = "no" => \A y \in Worker : ~Halts(x, y, u)
  <2>1. Nobody \notin Worker
    BY DEF Nobody, Worker
  <2> HIDE DEF x, j
  <2> QED
    BY <1>7, <1>10, <1>11, <2>1 DEF ItemStaffed, Creates
<1>14. /\ Core(v) /\ Spares(x, v, {w}) /\ Free(v) = Free(x)
       /\ Ready(v) \ {u} = Ready(x) \ {u} /\ (u \in Ready(v) <=> ReadyItem(j))
  <2> HIDE DEF x, j, v, u, r, W
  <2>1. Alters(x, v, u, j)
    BY <1>9, <1>10 DEF Alters
  <2>2. j.listed /\ j.phase = "uploading" => \E y \in Worker : Runs(x, y, u)
    BY <1>12
  <2>3. /\ Core(v) /\ Spares(x, v, W) /\ Free(v) = Free(x)
        /\ Ready(v) \ {u} = Ready(x) \ {u} /\ (u \in Ready(v) <=> ReadyItem(j))
    BY <1>1, <1>7, <1>10, <1>12, <1>13, <2>1, <2>2, ItemChanges
  <2> QED
    BY <2>3 DEF W
<1>15. Spares(s, v, {})
  <2> HIDE DEF x, v
  <2>1. Spares(s, v, {w}) /\ s.run[w].pc \notin Asking
    BY <1>10, <1>14, SparesThen DEF Asking
  <2> QED
    BY <2>1 DEF Spares
<1>16. Ready(v) = Ready(s) \ {u}
  <2>1. ~ReadyItem(j)
    BY <1>7 DEF ReadyItem
  <2> HIDE DEF x, v, j
  <2> QED
    BY <1>10, <1>14, <2>1
<1> HIDE DEF x, v
<1> QED
  BY <1>8, <1>10, <1>14, <1>15, <1>16

LEMMA StartsStaffs ==
    ASSUME NEW s, Core(s), NEW u \in Ready(s), NEW w \in Free(s)
    PROVE  LET t == Starts(s, u, w) IN
           Core(t) /\ Spares(s, t, {}) /\ Ready(t) = Ready(s) \ {u} /\ Free(t) = Free(s) \ {w}
<1> DEFINE r == [Idle EXCEPT !.of = u, !.file = s.item[u].file, !.pc = "hash"]
           t == [s EXCEPT !.run[w] = r]
<1>1. /\ s \in PageState /\ u \in Upload /\ w \in Worker /\ s.run[w].pc = "idle"
      /\ s.item[u] \in Item
  BY DEF Core, PageState, Ready, Free
<1>2. r \in Run /\ r.pc = "hash" /\ r.of = u
  <2>1. 0 \in Part /\ 1 \in 1..Attempts
    BY QueueAssumption DEF Part
  <2> QED
    BY <1>1, <2>1 DEF Run, Idle, Item
<1>3. /\ Core(t) /\ Spares(s, t, {w}) /\ t.run[w] = r /\ t.item = s.item
      /\ Ready(t) = Ready(s) /\ Free(t) = Free(s) \ {w}
  <2> HIDE DEF r
  <2>1. Unawaited(s, w) /\ Lets(s, w)
    <3> HIDE DEF t
    <3>1. s.run[w].pc \notin {"create", "recheck"}
      BY <1>1
    <3>2. Unawaited(s, w)
      BY <1>1, <3>1, Uncounted
    <3> QED
      BY <1>1, <3>2 DEF Lets
  <2>2. Turns(s, t, w, r) /\ t.item = s.item
    <3>1. Turns(s, t, w, r)
      BY <1>1, <1>2, RunSet
    <3> HIDE DEF t
    <3> QED
      BY <3>1 DEF Turns
  <2> HIDE DEF t
  <2>3. /\ Core(t) /\ Spares(s, t, {w}) /\ t.run[w] = r
        /\ Ready(t) = Ready(s) /\ Free(t) = FreeBut(s, w)
    <3>1. r \in Run /\ r.pc # "idle" /\ r.pc # "cancelling" /\ r.of \in Upload
      BY <1>1, <1>2
    <3>2. w \in Worker /\ Turns(s, t, w, r) /\ Unawaited(s, w) /\ Lets(s, w)
      BY <1>1, <2>1, <2>2
    <3>3. r.pc = "cancelling" =>
              s.item[r.of].cancelling # "no" /\ \A x \in Worker : ~Halts(s, x, r.of)
      BY <3>1
    <3>4. /\ r.pc # "idle" => r.of \in Upload
          /\ Unawaited(s, w) \/ (r.pc \in {"create", "recheck"} /\ r.of = s.run[w].of)
          /\ Lets(s, w) \/ GoesOn(s, w, r)
      BY <3>1, <3>2
    <3>5. /\ Core(t) /\ Spares(s, t, {w}) /\ t.run[w] = r /\ Ready(t) = Ready(s)
          /\ r.pc # "idle" => Free(t) = FreeBut(s, w)
      BY <3>1, <3>2, <3>3, <3>4, RunChanges
    <3> QED
      BY <3>1, <3>5
  <2> QED
    BY <2>2, <2>3 DEF FreeBut
<1>4. LET v == Starts(s, u, w) IN
      Core(v) /\ Spares(t, v, {}) /\ Ready(v) = Ready(t) \ {u} /\ Free(v) = Free(t)
  <2>1. CASE s.item[u].sha256
    <3>1. Starts(s, u, w) = Asks(t, t.run[w].of, w)
      BY <1>2, <1>3, <2>1 DEF Starts, r
    <3> HIDE DEF t, r
    <3> QED
      BY <1>1, <1>2, <1>3, <3>1, AsksStaffs
  <2>2. CASE ~s.item[u].sha256
    <3> DEFINE i == [t.item[u] EXCEPT !.phase = "hashing"]
    <3>1. Starts(s, u, w) = Update(t, u, i)
      BY <2>2 DEF Starts, WithPhase, r
    <3>2. Fits(t, u, i) /\ i.listed = t.item[u].listed /\ ~ReadyItem(i)
      <4>1. "hashing" \in Phase
        BY DEF Phase
      <4> HIDE DEF t
      <4> QED
        BY <1>1, <1>3, <4>1 DEF Fits, Item, ReadyItem
    <3> HIDE DEF t, i, r
    <3> QED
      BY <1>1, <1>3, <3>1, <3>2, UpdateStaffs
  <2> QED
    BY <2>1, <2>2
<1> HIDE DEF t
<1>5. Spares(s, Starts(s, u, w), {w})
  <2>1. Spares(t, Starts(s, u, w), {w})
    BY <1>4 DEF Spares
  <2> QED
    BY <1>3, <2>1, SparesThen
<1>6. s.run[w].pc \notin Asking
  BY <1>1 DEF Asking
<1> QED
  BY <1>3, <1>4, <1>5, <1>6 DEF Spares

LEMMA PumpStaffs ==
    ASSUME NEW s, Core(s), NearlyTight(s)
    PROVE  Staffs(s, Pump(s), {})
<1>1. CASE Ready(s) = {} \/ Free(s) = {}
  BY <1>1 DEF Pump, Staffs, Staffed, Tight, Spares
<1>2. CASE Ready(s) # {} /\ Free(s) # {}
  <2> DEFINE u == Least(Ready(s))
             w == Least(Free(s))
             t == Starts(s, u, w)
  <2>1. Ready(s) \subseteq Nat /\ Free(s) \subseteq Nat
    BY DEF Ready, Free, Upload, Worker
  <2>2. u \in Ready(s) /\ w \in Free(s)
    BY <1>2, <2>1, LeastIsMember
  <2>3. Pump(s) = t
    BY <1>2 DEF Pump
  <2> HIDE DEF u, w
  <2>4. Core(t) /\ Spares(s, t, {}) /\ Ready(t) = Ready(s) \ {u} /\ Free(t) = Free(s) \ {w}
    BY <2>2, StartsStaffs
  <2> HIDE DEF t
  <2>5. Tight(t)
    BY <2>2, <2>4 DEF NearlyTight, Tight
  <2> QED
    BY <2>3, <2>4, <2>5 DEF Staffs, Staffed
<1> QED
  BY <1>1, <1>2

LEMMA EndsStaffs ==
    ASSUME NEW s, Staffed(s), NEW w \in Worker, Unawaited(s, w), Lets(s, w)
    PROVE  Staffs(s, Ends(s, w), {w})
<1> DEFINE t == [s EXCEPT !.run[w] = Idle]
<1>1. Idle \in Run /\ Idle.pc = "idle" /\ s \in PageState
  <2>1. 0 \in Part /\ 1 \in 1..Attempts
    BY QueueAssumption DEF Part
  <2> QED
    BY <2>1 DEF Idle, Run, Staffed, Core
<1>2. Turns(s, t, w, Idle)
  BY <1>1, RunSet
<1>3. Ends(s, w) = Pump(t)
  BY DEF Ends
<1> HIDE DEF t
<1>4. Core(t) /\ Spares(s, t, {w}) /\ NearlyTight(t)
  BY <1>1, <1>2, RunChanges DEF Staffed
<1>5. Staffs(t, Pump(t), {w})
  BY <1>4, PumpStaffs, StaffsWider
<1> QED
  BY <1>3, <1>4, <1>5, SparesThen DEF Staffs

LEMMA FailsStaffs ==
    ASSUME NEW s, Staffed(s), NEW w \in Worker, s.run[w].pc # "idle", Unawaited(s, w)
    PROVE  Staffs(s, Fails(s, w), {w})
<1> DEFINE u == s.run[w].of
           t == IF s.item[u].phase \in Stopped THEN s ELSE WithPhase(s, u, "failed")
<1>1. u \in Upload /\ "failed" \in Phase \ {"waiting", "uploading"} /\ s.item[u] \in Item
  BY DEF Phase, Staffed, Core, PageState
<1>2. Fails(s, w) = Ends(t, w)
  BY DEF Fails
<1>3. Staffs(s, t, {w}) /\ t.run = s.run /\ SameWaits(s, t) /\ ~(t.item[u].listed /\ t.item[u].phase = "uploading")
  <2>1. CASE s.item[u].phase \in Stopped
    BY <2>1, StaffsSelf DEF Stopped, SameWaits
  <2>2. CASE s.item[u].phase \notin Stopped
    <3> HIDE DEF u
    <3>1. /\ Staffs(s, WithPhase(s, u, "failed"), {}) /\ SameWaits(s, WithPhase(s, u, "failed"))
          /\ WithPhase(s, u, "failed").run = s.run
          /\ WithPhase(s, u, "failed").item[u] =
                 IF s.item[u].listed THEN [s.item[u] EXCEPT !.phase = "failed"] ELSE s.item[u]
      BY <1>1, WithPhaseStaffs
    <3>2. Staffs(s, WithPhase(s, u, "failed"), {w})
      BY <3>1, StaffsWider
    <3> QED
      BY <1>1, <2>2, <3>1, <3>2 DEF Item
  <2> QED
    BY <2>1, <2>2
<1> HIDE DEF t
<1>4. Unawaited(t, w) /\ Lets(t, w) /\ Staffed(t)
  BY <1>3 DEF Unawaited, SameWaits, Lets, Staffs
<1>5. Staffs(t, Ends(t, w), {w})
  BY <1>4, EndsStaffs
<1> QED
  BY <1>2, <1>3, <1>5, StaffsThen
LEMMA TurnsStaffs ==
    ASSUME NEW s, Staffed(s), NEW w \in Worker, s.run[w].pc # "idle", Unawaited(s, w),
           NEW r \in Run, r.pc # "cancelling", GoesOn(s, w, r)
    PROVE  LET t == [s EXCEPT !.run[w] = r] IN
           Staffs(s, t, {w}) /\ t.run[w] = r /\ t.item = s.item /\ Unawaited(t, w)
<1> DEFINE t == [s EXCEPT !.run[w] = r]
<1>1. Turns(s, t, w, r)
  BY RunSet DEF Staffed, Core
<1> HIDE DEF t
<1>2. Core(t) /\ Spares(s, t, {w}) /\ t.run[w] = r /\ (Tight(s) => Tight(t))
  BY <1>1, RunStays DEF Staffed
<1>3. t.item = s.item /\ Unawaited(t, w)
  BY <1>1 DEF Turns, Unawaited
<1> QED
  BY <1>2, <1>3 DEF t, Staffs, Staffed

LEMMA PutsStaffs ==
    ASSUME NEW s, Staffed(s), NEW w \in Worker, s.run[w].pc # "idle", Unawaited(s, w)
    PROVE  Staffs(s, Puts(s, w), {w})
<1> DEFINE u == s.run[w].of
           r == [s.run[w] EXCEPT !.pc = "put"]
           t == [s EXCEPT !.run[w] = r]
           i == [t.item[u] EXCEPT !.controller = w]
           v == Puts(s, w)
<1>1. /\ s \in PageState /\ u \in Upload /\ s.run[w] \in Run /\ s.item[u] \in Item
  BY DEF Staffed, Core, PageState
<1>2. r \in Run /\ r.pc # "cancelling" /\ GoesOn(s, w, r)
  BY <1>1 DEF Run, GoesOn
<1>3. Staffs(s, t, {w}) /\ t.item = s.item
  <2> HIDE DEF r
  <2> QED
    BY <1>2, TurnsStaffs
<1>4. ItemStaffed(t, u)
  BY <1>1, <1>3 DEF Staffs, Staffed, Core
<1>5. Fits(t, u, i) /\ (ReadyItem(i) => ReadyItem(t.item[u]))
  <2> HIDE DEF t, u
  <2> QED
    BY <1>1, <1>3, <1>4 DEF Fits, Item, ReadyItem, ItemStaffed
<1>6. Alters(t, v, u, i)
  <2>1. t.run = [s.run EXCEPT ![w] = r] /\ t.wanted = s.wanted
    BY <1>1 DEF PageState
  <2>2. r \in Run /\ i \in Item
    BY <1>2, <1>5 DEF Fits
  <2>3. v = [s EXCEPT !.run = [s.run EXCEPT ![w] = r], !.item = [s.item EXCEPT ![u] = i],
                      !.foreign = IF s.run[w].file = Original THEN @ ELSE @ \cup {u}]
    BY <1>1, <1>3 DEF Puts, PageState
  <2>4. /\ v.run = [s.run EXCEPT ![w] = r] /\ v.item = [s.item EXCEPT ![u] = i]
        /\ v \in PageState
    <3> HIDE DEF r, i, t, u, v
    <3> QED
      BY <1>1, <2>2, <2>3 DEF PageState
  <2> HIDE DEF r, i, t, u, v
  <2> QED
    BY <1>3, <2>1, <2>4 DEF Alters
<1> HIDE DEF t, u, i, v
<1>7. Core(v) /\ Spares(t, v, {}) /\ (Tight(t) => Tight(v))
  BY <1>1, <1>3, <1>5, <1>6, FitsStaffs DEF Staffs, Staffed
<1>8. Staffs(t, v, {w})
  BY <1>3, <1>7, StaffsWider DEF Staffs, Staffed
<1> QED
  BY <1>3, <1>8, StaffsThen DEF v

LEMMA GivenUpStaffs ==
    ASSUME NEW s, Staffed(s), NEW w \in Worker, s.run[w].pc # "idle", Unawaited(s, w)
    PROVE  Staffs(s, GivenUp(s, w), {w})
<1> DEFINE u == s.run[w].of
           t == LetGo(s, u, w)
           r == [s.run[w] EXCEPT !.pc = "recover"]
<1>1. s \in PageState /\ u \in Upload /\ s.run[w] \in Run
  BY DEF Staffed, Core, PageState
<1>2. CASE s.item[u].phase \in Stopped \/ s.run[w].try = Attempts
  <2>1. GivenUp(s, w) = Fails(t, w)
    BY <1>2 DEF GivenUp
  <2>2. Staffs(s, t, {}) /\ t.run = s.run /\ SameWaits(s, t)
    <3> HIDE DEF u
    <3> QED
      BY <1>1, LetGoStaffs
  <2> HIDE DEF t
  <2>3. Staffed(t) /\ Unawaited(t, w) /\ Staffs(s, t, {w})
    BY <2>2, StaffsWider DEF Staffs, Unawaited, SameWaits
  <2>4. Staffs(t, Fails(t, w), {w})
    BY <2>2, <2>3, FailsStaffs
  <2> QED
    BY <2>1, <2>3, <2>4, StaffsThen
<1>3. CASE ~(s.item[u].phase \in Stopped \/ s.run[w].try = Attempts)
  <2>1. GivenUp(s, w) = [s EXCEPT !.run[w] = r]
    BY <1>1, <1>3 DEF GivenUp, PageState
  <2>2. r \in Run /\ r.pc # "cancelling" /\ GoesOn(s, w, r)
    BY <1>1 DEF Run, GoesOn
  <2> HIDE DEF r
  <2> QED
    BY <2>1, <2>2, TurnsStaffs
<1> QED
  BY <1>2, <1>3

LEMMA FromPartStaffs ==
    ASSUME NEW s, Staffed(s), NEW w \in Worker, s.run[w].pc # "idle", Unawaited(s, w), NEW n \in Nat
    PROVE  Staffs(s, FromPart(s, w, n), {w})
<1> DEFINE missing == {q \in Part : q >= n} \ s.run[w].got
           stopped == n \in Part /\ s.item[s.run[w].of].phase \in Stopped
<1>1. s \in PageState /\ s.run[w] \in Run
  BY DEF Staffed, Core, PageState
<1>2. CASE stopped
  <2>1. Lets(s, w)
    BY <1>2 DEF Lets, Stopped
  <2> QED
    BY <1>2, <2>1, EndsStaffs DEF FromPart
<1>3. CASE ~stopped /\ missing = {}
  <2> DEFINE r == [Idle EXCEPT !.pc = "complete", !.of = s.run[w].of, !.file = s.run[w].file]
  <2>1. FromPart(s, w, n) = [s EXCEPT !.run[w] = r]
    BY <1>3 DEF FromPart
  <2>2. r \in Run /\ r.pc # "cancelling" /\ GoesOn(s, w, r)
    <3>1. 0 \in Part /\ 1 \in 1..Attempts
      BY QueueAssumption DEF Part
    <3> QED
      BY <1>1, <3>1 DEF Run, Idle, GoesOn
  <2> HIDE DEF r
  <2> QED
    BY <2>1, <2>2, TurnsStaffs
<1>4. CASE ~stopped /\ missing # {}
  <2> DEFINE q == Least(missing)
             r == [s.run[w] EXCEPT !.pc = "slice", !.part = q, !.try = 1]
  <2>1. q \in Part
    <3>1. missing \subseteq Nat /\ missing \subseteq Part
      BY DEF Part
    <3> HIDE DEF missing
    <3> QED
      BY <1>4, <3>1, LeastIsMember
  <2>2. FromPart(s, w, n) = [s EXCEPT !.run[w] = r]
    <3> HIDE DEF q
    <3>1. FromPart(s, w, n) = [s EXCEPT !.run[w].pc = "slice", !.run[w].part = q, !.run[w].try = 1]
      BY <1>4 DEF FromPart, q
    <3> QED
      BY <1>1, <3>1, ZenonT(40) DEF PageState, Run
  <2>3. r \in Run /\ r.pc # "cancelling" /\ GoesOn(s, w, r)
    <3> HIDE DEF q
    <3>1. 1 \in 1..Attempts
      BY QueueAssumption
    <3> QED
      BY <1>1, <2>1, <3>1 DEF Run, GoesOn
  <2> HIDE DEF r
  <2> QED
    BY <2>2, <2>3, TurnsStaffs
<1> QED
  BY <1>2, <1>3, <1>4

LEMMA SentStaffs ==
    ASSUME NEW s, Staffed(s), NEW w \in Worker, s.run[w].pc \in {"put", "recover"}
    PROVE  Staffed(Sent(s, w))
<1> DEFINE u == s.run[w].of
           n == s.run[w].part
           t == LetGo(s, u, w)
           r == [s.run[w] EXCEPT !.got = @ \cup {n}]
           v == [t EXCEPT !.run[w] = r]
<1>1. u \in Upload /\ s.run[w] \in Run /\ n \in Part /\ n + 1 \in Nat
  BY DEF Staffed, Core, PageState, Run, Part
<1>2. Staffed(t) /\ t.run = s.run
  <2> HIDE DEF u
  <2> QED
    BY <1>1, LetGoStaffs DEF Staffs
<1>3. r \in Run /\ r.of = u /\ r.pc = s.run[w].pc
  BY <1>1 DEF Run
<1>4. Unawaited(t, w)
  <2> HIDE DEF t
  <2> QED
    BY <1>2, Uncounted DEF Staffed
<1>5. Staffed(v) /\ v.run[w] = r /\ Unawaited(v, w)
  <2>1. r.pc # "cancelling" /\ GoesOn(t, w, r)
    BY <1>2, <1>3 DEF GoesOn
  <2> HIDE DEF r, t
  <2> QED
    BY <1>2, <1>3, <1>4, <2>1, TurnsStaffs, ZenonT(40) DEF Staffs
<1>6. Sent(s, w) = FromPart(v, w, n + 1)
  <2>1. t \in PageState
    BY <1>2 DEF Staffed, Core
  <2>2. Sent(s, w) = FromPart([t EXCEPT !.run[w].got = @ \cup {n}], w, n + 1)
    BY DEF Sent
  <2>3. [t EXCEPT !.run[w].got = @ \cup {n}] = v
    <3> HIDE DEF t, n
    <3> QED
      BY <1>2, <2>1 DEF PageState
  <2> QED
    BY <2>2, <2>3
<1> HIDE DEF v, n, r
<1> QED
  BY <1>1, <1>3, <1>5, <1>6, FromPartStaffs DEF Staffs

-----------------------------------------------------------------------------
LEMMA AbortStaffs ==
    ASSUME NEW s, Staffed(s), NEW u \in Upload
    PROVE  Staffs(s, Abort(s, u), {})
<1> DEFINE w == s.item[u].controller
<1>1. w \in Worker \cup {Nobody}
  BY DEF Staffed, Core, PageState, Item
<1>2. CASE w # Nobody /\ s.run[w].pc = "put"
  <2>1. Abort(s, u) = GivenUp(s, w)
    BY <1>2 DEF Abort
  <2>2. s.run[w].pc # "idle" /\ s.run[w].pc \notin Asking /\ w \in Worker
    BY <1>1, <1>2 DEF Asking
  <2>3. Unawaited(s, w)
    BY <1>2, <2>2, Uncounted DEF Staffed
  <2> HIDE DEF w
  <2> QED
    BY <2>1, <2>2, <2>3, GivenUpStaffs, StaffsNarrower
<1>3. CASE ~(w # Nobody /\ s.run[w].pc = "put")
  BY <1>3, StaffsSelf DEF Abort
<1> QED
  BY <1>2, <1>3

LEMMA LeavesStaffs ==
    ASSUME NEW s, Staffed(s), NEW u \in Upload
    PROVE  Staffs(s, Leaves(s, u), {})
<1> DEFINE i == [s.item[u] EXCEPT !.listed = FALSE]
           t == [Forgotten(s, u) EXCEPT !.item[u].listed = FALSE]
<1>1. s \in PageState /\ s.item[u] \in Item
  BY DEF Staffed, Core, PageState
<1>2. Fits(s, u, i) /\ ~ReadyItem(i)
  BY <1>1 DEF Fits, Item, ReadyItem
<1>3. Alters(s, t, u, i)
  <2>1. t = [s EXCEPT !.item[u] = i, !.wanted = @ \ {u}, !.leaving = @ \cup {u}]
    BY <1>1 DEF Forgotten, PageState
  <2> HIDE DEF i, t
  <2> QED
    BY <1>1, <1>2, <2>1 DEF Alters, Fits, PageState
<1>4. Leaves(s, u) = Abort(t, u)
  BY DEF Leaves
<1> HIDE DEF t, i
<1>5. Staffs(s, t, {})
  BY <1>2, <1>3, FitsStaffs DEF Staffs, Staffed
<1> QED
  BY <1>4, <1>5, AbortStaffs, StaffsThen DEF Staffs
-----------------------------------------------------------------------------
(* The end of a cancellation: whoever awaited it goes on, and no question  *)
(* that was only counted on by it is counted on any longer.                *)
UnawaitedBut(s, w, u) == \A v \in Upload :
    s.item[v].resolving # w /\ (v # u => ~(s.item[v].cancelling = "await" /\ s.item[v].awaited = w))
Settles(s, t, u) == \A w \in Worker :
    s.run[w].pc \in Asking /\ UnawaitedBut(s, w, u) => Unawaited(t, w)

LEMMA SettlesThen ==
    ASSUME NEW u, NEW r, NEW s, NEW t, Settles(r, s, u), Spares(r, s, {}), Spares(s, t, {})
    PROVE  Settles(r, t, u)
BY DEF Settles, Spares

\* An item whose cancellation no longer awaits anything.
LEMMA Settled ==
    ASSUME NEW s, Core(s), NEW u \in Upload, NEW i \in Item, NEW t, Alters(s, t, u, i),
           i.resolving = s.item[u].resolving, i.cancelling # "await"
    PROVE  Settles(s, t, u)
<1>1. t.item[u] = i /\ \A v \in Upload : v # u => t.item[v] = s.item[v]
  BY DEF Core, PageState, Alters
<1> QED
  BY <1>1 DEF Settles, UnawaitedBut, Unawaited

LEMMA CancelEndsStaffs ==
    ASSUME NEW s, Staffed(s), NEW u \in Upload, ~(s.item[u].listed /\ s.item[u].phase = "uploading")
    PROVE  Staffs(s, CancelEnds(s, u), {}) /\ Settles(s, CancelEnds(s, u), u)
<1> DEFINE i == [s.item[u] EXCEPT !.cancelling = "no", !.awaited = Nobody, !.removing = FALSE]
           t == [s EXCEPT !.item[u].cancelling = "no", !.item[u].awaited = Nobody, !.item[u].removing = FALSE]
           y == Least(Waits(t, u))
           r == IF Waits(t, u) = {} THEN t ELSE Ends(t, y)
           c == CancelEnds(s, u)
<1>1. /\ s \in PageState /\ s.item[u] \in Item /\ ItemStaffed(s, u) /\ Core(s) /\ Tight(s)
  BY DEF Staffed, Core, PageState
<1>2. /\ i \in Item /\ i.resolving = s.item[u].resolving /\ i.cancelling = "no" /\ i.cancelling # "await"
      /\ i.listed = s.item[u].listed /\ i.phase = s.item[u].phase
      /\ ReadyItem(i) <=> ReadyItem(s.item[u])
      /\ i.listed /\ i.phase = "waiting" => i.file # None
      /\ ~(i.listed /\ i.phase = "uploading")
  BY <1>1, ZenonT(40) DEF Item, ReadyItem, ItemStaffed
<1>3. Alters(s, t, u, i)
  <2>1. t = [s EXCEPT !.item[u] = i]
    BY <1>1 DEF PageState
  <2> HIDE DEF t, i
  <2> QED
    BY <1>1, <1>2, <2>1, ItemSet
<1>4. Waits(t, u) = {w \in Worker : Halts(s, w, u)}
  BY <1>3 DEF Waits, Halts, Alters
<1>5. c = IF s.item[u].removing /\ r.item[u].phase \in Terminal THEN Leaves(r, u) ELSE r
  BY DEF CancelEnds
<1> HIDE DEF c, t, i
<1>6. Staffs(s, r, {}) /\ Settles(s, r, u)
  <2>1. CASE Waits(t, u) = {}
    <3>1. r = t /\ \A w \in Worker : ~Halts(s, w, u)
      BY <1>4, <2>1
    <3> HIDE DEF r
    <3>2. i.resolving \in {Nobody, s.item[u].resolving}
      BY <1>2
    <3>3. Core(t) /\ Spares(s, t, {}) /\ (Tight(s) /\ (ReadyItem(i) => ReadyItem(s.item[u])) => Tight(t))
      BY <1>1, <1>2, <1>3, <3>1, <3>2, ItemChanges
    <3>4. Settles(s, t, u)
      BY <1>1, <1>2, <1>3, Settled
    <3> QED
      BY <1>1, <1>2, <3>1, <3>3, <3>4 DEF Staffs, Staffed
  <2>2. CASE Waits(t, u) # {}
    <3> DEFINE x == [s EXCEPT !.run[y] = Idle]
               z == [t EXCEPT !.run[y] = Idle]
    <3>1. y \in Worker /\ Halts(s, y, u)
      <4>1. Waits(t, u) \subseteq Nat
        BY DEF Waits, Worker
      <4>2. y \in Waits(t, u)
        BY <2>2, <4>1, LeastIsMember
      <4> QED
        BY <1>4, <4>2
    <3> HIDE DEF y
    <3>2. r = Pump(z)
      BY <2>2 DEF Ends
    <3> HIDE DEF r
    <3>3. Idle \in Run /\ Idle.pc = "idle" /\ Idle.pc # "cancelling"
      <4>1. 0 \in Part /\ 1 \in 1..Attempts
        BY QueueAssumption DEF Part
      <4> QED
        BY <4>1 DEF Idle, Run
    <3>4. Turns(s, x, y, Idle) /\ x.item = s.item /\ \A w \in Worker : Halts(x, w, u) => w # y /\ Halts(s, w, u)
      <4>1. Turns(s, x, y, Idle)
        BY <1>1, <3>1, <3>3, RunSet
      <4> HIDE DEF x
      <4> QED
        BY <1>1, <3>1, <3>3, <4>1 DEF Turns, Halts, PageState
    <3>5. Unawaited(s, y) /\ Lets(s, y)
      BY <1>1, <3>1, Uncounted DEF Halts, Lets
    <3>6. Alters(x, z, u, i)
      <4>1. /\ z.item = t.item /\ z.run = [t.run EXCEPT ![y] = Idle] /\ z \in PageState
        BY <1>3, <3>1, <3>3 DEF Alters, PageState
      <4> HIDE DEF x, z
      <4> QED
        BY <1>3, <3>4, <4>1 DEF Alters, Turns
    <3> HIDE DEF x, z
    <3>7. Core(x) /\ Spares(s, x, {y}) /\ NearlyTight(x)
      BY <1>1, <3>1, <3>3, <3>4, <3>5, RunChanges
    <3>8. \A w \in Worker : ~Halts(x, w, u)
      BY <1>1, <3>1, <3>4 DEF ItemStaffed
    <3>9. /\ Core(z) /\ Spares(x, z, {}) /\ Free(z) = Free(x)
          /\ Ready(z) \ {u} = Ready(x) \ {u} /\ (u \in Ready(z) <=> ReadyItem(i))
      <4>1. i.resolving \in {Nobody, x.item[u].resolving}
        BY <1>2, <3>4
      <4> QED
        BY <1>2, <3>6, <3>7, <3>8, <4>1, ItemChanges
    <3>10. NearlyTight(z)
      <4>1. u \in Ready(x) <=> ReadyItem(i)
        BY <1>2, <3>4 DEF Ready, ReadyItem
      <4>2. Ready(z) = Ready(x)
        BY <3>9, <4>1
      <4> QED
        BY <3>7, <3>9, <4>2 DEF NearlyTight
    <3>11. Spares(s, z, {y}) /\ Spares(s, z, {}) /\ Settles(s, z, u)
      <4>1. Spares(x, z, {y}) /\ s.run[y].pc \notin Asking
        BY <3>1, <3>9 DEF Spares, Halts, Asking
      <4>2. Spares(s, z, {y}) /\ Spares(s, z, {})
        BY <3>7, <4>1, SparesThen DEF Spares
      <4>3. Settles(x, z, u)
        BY <1>2, <3>4, <3>6, <3>7, Settled
      <4>4. Settles(s, z, u)
        BY <3>1, <3>4, <3>7, <4>1, <4>3 DEF Settles, UnawaitedBut, Spares
      <4> QED
        BY <4>2, <4>4
    <3>12. Staffs(z, Pump(z), {})
      BY <3>9, <3>10, PumpStaffs
    <3> QED
      BY <3>2, <3>11, <3>12, SparesThen, SettlesThen DEF Staffs
  <2> QED
    BY <2>1, <2>2
<1> HIDE DEF r
<1>7. Staffs(r, Leaves(r, u), {})
  BY <1>6, LeavesStaffs DEF Staffs
<1>8. Staffs(s, Leaves(r, u), {}) /\ Settles(s, Leaves(r, u), u)
  BY <1>6, <1>7, StaffsThen, SettlesThen DEF Staffs
<1> QED
  BY <1>5, <1>6, <1>8 DEF c

LEMMA SettlesAfter ==
    ASSUME NEW u, NEW r, NEW s, NEW t, SameWaits(r, s), r.run = s.run, Settles(s, t, u)
    PROVE  Settles(r, t, u)
BY DEF Settles, SameWaits, UnawaitedBut

LEMMA CancelSeesStaffs ==
    ASSUME NEW s, Staffed(s), NEW u \in Upload, NEW state \in State
    PROVE  Staffs(s, CancelSees(s, u, state), {}) /\ Settles(s, CancelSees(s, u, state), u)
<1>1. s \in PageState /\ s.item[u] \in Item /\ ItemStaffed(s, u) /\ Core(s) /\ Tight(s)
  BY DEF Staffed, Core, PageState
<1>2. CASE state \in Terminal
  <2> DEFINE t == Closes(s, u, state)
  <2>1. /\ Staffs(s, t, {}) /\ SameWaits(s, t) /\ t.run = s.run
        /\ ~(t.item[u].listed /\ t.item[u].phase = "uploading")
    <3>1. /\ Staffs(s, t, {}) /\ SameWaits(s, t) /\ t.run = s.run
          /\ t.item[u] = IF s.item[u].listed THEN [s.item[u] EXCEPT !.status = state, !.phase = state]
                         ELSE s.item[u]
      BY <1>2, ClosesStaffs
    <3>2. state # "uploading"
      BY <1>2 DEF Terminal
    <3> HIDE DEF t
    <3> QED
      BY <1>1, <3>1, <3>2 DEF Item
  <2>2. CancelSees(s, u, state) = CancelEnds(t, u)
    BY <1>2 DEF CancelSees
  <2> HIDE DEF t
  <2>3. Staffs(t, CancelEnds(t, u), {}) /\ Settles(t, CancelEnds(t, u), u)
    BY <2>1, CancelEndsStaffs DEF Staffs
  <2> QED
    BY <2>1, <2>2, <2>3, StaffsThen, SettlesAfter
<1>3. CASE state \notin Terminal
  <2> DEFINE i == [s.item[u] EXCEPT !.cancelling = "delete", !.awaited = Nobody]
             t == [s EXCEPT !.item[u] = i]
  <2>1. CancelSees(s, u, state) = t
    BY <1>1, <1>3 DEF CancelSees, PageState
  <2>2. /\ i \in Item /\ i.resolving = s.item[u].resolving /\ i.cancelling # "no" /\ i.cancelling # "await"
        /\ ReadyItem(i) <=> ReadyItem(s.item[u])
        /\ i.listed /\ i.phase = "waiting" => i.file # None
        /\ i.listed /\ i.phase = "uploading" => \E w \in Worker : Runs(s, w, u)
        /\ i.resolving \in {Nobody, s.item[u].resolving}
    BY <1>1, ZenonT(40) DEF Item, ReadyItem, ItemStaffed
  <2> HIDE DEF i
  <2>3. Alters(s, t, u, i)
    BY <1>1, <2>2, ItemSet
  <2> HIDE DEF t
  <2>4. Core(t) /\ Spares(s, t, {}) /\ (Tight(s) /\ (ReadyItem(i) => ReadyItem(s.item[u])) => Tight(t))
    BY <1>1, <2>2, <2>3, ItemChanges
  <2>5. Settles(s, t, u)
    BY <1>1, <2>2, <2>3, Settled
  <2> QED
    BY <1>1, <2>1, <2>2, <2>4, <2>5 DEF Staffs, Staffed
<1> QED
  BY <1>2, <1>3

LEMMA CancelFailsStaffs ==
    ASSUME NEW s, Staffed(s), NEW u \in Upload, NEW code
    PROVE  Staffs(s, CancelFails(s, u, code), {}) /\ Settles(s, CancelFails(s, u, code), u)
<1> DEFINE phase == IF code = "upload_not_found" THEN "cancelled" ELSE "failed"
           t == WithPhase(s, u, phase)
<1>1. phase \in Phase \ {"waiting", "uploading"} /\ s.item[u] \in Item
  BY DEF Phase, Terminal, Staffed, Core, PageState
<1>2. CancelFails(s, u, code) = CancelEnds(t, u)
  BY DEF CancelFails
<1> HIDE DEF phase
<1>3. /\ Staffs(s, t, {}) /\ SameWaits(s, t) /\ t.run = s.run
      /\ t.item[u] = IF s.item[u].listed THEN [s.item[u] EXCEPT !.phase = phase] ELSE s.item[u]
  BY <1>1, WithPhaseStaffs
<1> HIDE DEF t
<1>4. ~(t.item[u].listed /\ t.item[u].phase = "uploading")
  BY <1>1, <1>3 DEF Item
<1>5. Staffs(t, CancelEnds(t, u), {}) /\ Settles(t, CancelEnds(t, u), u)
  BY <1>3, <1>4, CancelEndsStaffs DEF Staffs
<1> QED
  BY <1>2, <1>3, <1>5, StaffsThen, SettlesAfter

\* A cancellation under way does what one that begins does.
LEMMA CancelStartsStaffs ==
    ASSUME NEW s, NEW u \in Upload, s.item[u] \in Item, Staffed([s EXCEPT !.item[u].cancelling = "get"])
    PROVE  Staffed(CancelStarts(s, u))
<1> DEFINE x == [s EXCEPT !.item[u].cancelling = "get"]
           v == WithPhase(x, u, "paused")
           t == Abort(v, u)
<1>1. "paused" \in Phase \ {"waiting", "uploading"}
  BY DEF Phase
<1>2. Staffed(v)
  <2> HIDE DEF x
  <2> QED
    BY <1>1, WithPhaseStaffs DEF Staffs, x
<1>3. Staffed(t)
  <2> HIDE DEF v
  <2> QED
    BY <1>2, AbortStaffs DEF Staffs
<1>4. CASE s.item[u].status \notin {None, "active"}
  <2>1. CancelStarts(s, u) = CancelSees(t, u, s.item[u].status)
    BY <1>4 DEF CancelStarts
  <2>2. s.item[u].status \in State
    BY <1>4 DEF Item
  <2> HIDE DEF t
  <2> QED
    BY <1>3, <2>1, <2>2, CancelSeesStaffs DEF Staffs
<1>5. CASE s.item[u].status \in {None, "active"} /\ t.item[u].resolving = Nobody
  BY <1>3, <1>5 DEF CancelStarts
<1>6. CASE s.item[u].status \in {None, "active"} /\ t.item[u].resolving # Nobody
  <2> DEFINE i == [t.item[u] EXCEPT !.cancelling = "await", !.awaited = t.item[u].resolving]
             z == [t EXCEPT !.item[u].cancelling = "await", !.item[u].awaited = t.item[u].resolving]
  <2>1. CancelStarts(s, u) = z
    BY <1>6 DEF CancelStarts
  <2> HIDE DEF t
  <2>2. t \in PageState /\ t.item[u] \in Item /\ ItemStaffed(t, u) /\ Core(t) /\ Tight(t)
    BY <1>3 DEF Staffed, Core, PageState
  <2>3. t.item[u].resolving \in Worker
    BY <1>6, <2>2 DEF ItemStaffed, Creates
  <2>4. /\ i \in Item /\ i.cancelling = "await" /\ i.cancelling # "no"
        /\ i.awaited = t.item[u].resolving /\ i.awaited # Nobody
        /\ i.resolving \in {Nobody, t.item[u].resolving}
        /\ ReadyItem(i) <=> ReadyItem(t.item[u])
        /\ i.listed /\ i.phase = "waiting" => i.file # None
        /\ i.listed /\ i.phase = "uploading" => \E w \in Worker : Runs(t, w, u)
    <3>1. /\ i \in Item /\ i.cancelling = "await" /\ i.awaited = t.item[u].resolving
          /\ i.resolving = t.item[u].resolving /\ i.listed = t.item[u].listed
          /\ i.phase = t.item[u].phase /\ i.file = t.item[u].file
      BY <2>2, <2>3 DEF Item
    <3> HIDE DEF i
    <3> QED
      BY <1>6, <2>2, <3>1 DEF ReadyItem, ItemStaffed
  <2>5. z = [t EXCEPT !.item[u] = i]
    BY <2>2 DEF PageState
  <2> HIDE DEF i, z
  <2>6. Alters(t, z, u, i)
    BY <2>2, <2>4, <2>5, ItemSet
  <2>7. Core(z) /\ (Tight(t) /\ (ReadyItem(i) => ReadyItem(t.item[u])) => Tight(z))
    BY <2>2, <2>4, <2>6, ItemChanges
  <2> QED
    BY <2>1, <2>2, <2>4, <2>7 DEF Staffed
<1> QED
  BY <1>4, <1>5, <1>6
-----------------------------------------------------------------------------
(* A question has its answer.                                              *)
LEMMA ResolvedStaffs ==
    ASSUME NEW s, Staffed(s), NEW w \in Worker, s.run[w].pc \in Asking
    PROVE  LET t == Resolved(s, w)  u == s.run[w].of IN
           /\ Staffs(s, t, {}) /\ t.run = s.run /\ UnawaitedBut(t, w, u)
           /\ ~Awaited(s, u, w) => Unawaited(t, w)
<1> DEFINE u == s.run[w].of
           i == [s.item[u] EXCEPT !.resolving = IF @ = w THEN Nobody ELSE @]
           t == [s EXCEPT !.item[u] = i]
<1>1. /\ s \in PageState /\ u \in Upload /\ s.item[u] \in Item /\ ItemStaffed(s, u) /\ Core(s) /\ Tight(s)
      /\ w # Nobody /\ Nobody \notin Worker
  BY DEF Staffed, Core, PageState, Asking, Worker, Nobody
<1>2. Resolved(s, w) = t
  BY <1>1 DEF Resolved, PageState
<1>3. /\ i \in Item /\ i.resolving # w /\ i.cancelling = s.item[u].cancelling /\ i.awaited = s.item[u].awaited
      /\ i.resolving \in {Nobody, s.item[u].resolving}
      /\ i.listed = s.item[u].listed /\ i.phase = s.item[u].phase /\ i.file = s.item[u].file
  BY <1>1 DEF Item
<1> HIDE DEF i
<1>4. Alters(s, t, u, i)
  BY <1>1, <1>3, ItemSet
<1>5. /\ ReadyItem(i) <=> ReadyItem(s.item[u])
      /\ i.listed /\ i.phase = "waiting" => i.file # None
      /\ i.listed /\ i.phase = "uploading" => \E x \in Worker : Runs(s, x, u)
      /\ i.cancelling = "no" => \A x \in Worker : ~Halts(s, x, u)
  BY <1>1, <1>3 DEF ReadyItem, ItemStaffed
<1>6. i.cancelling = "await" =>
          /\ i.awaited # Nobody
          /\ \/ i.awaited = s.item[u].resolving
             \/ s.item[u].cancelling = "await" /\ i.awaited = s.item[u].awaited
  BY <1>1, <1>3 DEF ItemStaffed, Creates
<1> HIDE DEF t
<1>7. Core(t) /\ Spares(s, t, {}) /\ (Tight(s) /\ (ReadyItem(i) => ReadyItem(s.item[u])) => Tight(t))
  <2> HIDE DEF u
  <2> QED
    BY <1>1, <1>3, <1>4, <1>5, <1>6, ItemChanges
<1>8. t.item[u] = i /\ \A v \in Upload : v # u => t.item[v] = s.item[v]
  BY <1>1, <1>4 DEF Alters, PageState
<1>9. ASSUME NEW v \in Upload, v # u
      PROVE  s.item[v].resolving # w /\ ~(s.item[v].cancelling = "await" /\ s.item[v].awaited = w)
  <2>1. ItemStaffed(s, v)
    BY <1>1 DEF Core
  <2> QED
    BY <1>1, <1>9, <2>1 DEF ItemStaffed, Creates
<1>10. UnawaitedBut(t, w, u)
  <2> HIDE DEF u
  <2> QED
    BY <1>3, <1>8, <1>9 DEF UnawaitedBut
<1>11. ~Awaited(s, u, w) => Unawaited(t, w)
  <2> HIDE DEF u
  <2> QED
    BY <1>3, <1>8, <1>9 DEF Unawaited, Awaited
<1> QED
  BY <1>1, <1>2, <1>4, <1>5, <1>7, <1>10, <1>11 DEF Staffs, Staffed, Alters

\* A run that finds its upload paused cancels it and waits for the cancellation.
LEMMA HaltStaffs ==
    ASSUME NEW t, Staffed(t), NEW w \in Worker, t.run[w].pc # "idle", Unawaited(t, w),
           t.run[w].pc \in Asking, t.item[t.run[w].of].cancelling = "no"
    PROVE  Staffed(CancelStarts([t EXCEPT !.run[w].pc = "cancelling"], t.run[w].of))
<1> DEFINE u == t.run[w].of
           i == [t.item[u] EXCEPT !.cancelling = "get"]
           y == [t EXCEPT !.item[u] = i]
           r == [t.run[w] EXCEPT !.pc = "cancelling"]
           x == [t EXCEPT !.run[w].pc = "cancelling"]
           z == [x EXCEPT !.item[u].cancelling = "get"]
<1>1. /\ t \in PageState /\ u \in Upload /\ t.item[u] \in Item /\ t.run[w] \in Run
      /\ ItemStaffed(t, u) /\ Core(t) /\ Tight(t)
  BY DEF Staffed, Core, PageState
<1>2. /\ i \in Item /\ i.cancelling = "get" /\ i.cancelling # "no" /\ i.cancelling # "await"
      /\ i.resolving \in {Nobody, t.item[u].resolving}
      /\ i.listed = t.item[u].listed /\ i.phase = t.item[u].phase /\ i.file = t.item[u].file
  BY <1>1 DEF Item
<1>3. r \in Run /\ r.pc = "cancelling" /\ r.pc # "idle" /\ r.of = u /\ GoesOn(y, w, r)
  BY <1>1 DEF Run, GoesOn
<1>4. x.item[u] \in Item
  BY <1>1
<1>5. Alters(t, y, u, i)
  <2> HIDE DEF i
  <2> QED
    BY <1>1, <1>2, ItemSet
<1>6. Turns(y, z, w, r)
  <2>1. z = [y EXCEPT !.run[w] = r]
    BY <1>1 DEF PageState
  <2>2. y \in PageState
    BY <1>5 DEF Alters
  <2> HIDE DEF y, z, r
  <2> QED
    BY <1>3, <2>1, <2>2, RunSet
<1> HIDE DEF i, y, r, z
<1>7. /\ ReadyItem(i) <=> ReadyItem(t.item[u])
      /\ i.listed /\ i.phase = "waiting" => i.file # None
      /\ i.listed /\ i.phase = "uploading" => \E a \in Worker : Runs(t, a, u)
      /\ \A a \in Worker : ~Halts(t, a, u)
  BY <1>1, <1>2 DEF ReadyItem, ItemStaffed
<1>8. /\ Core(y) /\ Spares(t, y, {}) /\ y.item[u] = i
      /\ Tight(t) /\ (ReadyItem(i) => ReadyItem(t.item[u])) => Tight(y)
  <2> HIDE DEF u
  <2> QED
    BY <1>1, <1>2, <1>5, <1>7, ItemChanges
<1>9. Unawaited(y, w) /\ \A a \in Worker : ~Halts(y, a, r.of)
  BY <1>3, <1>5, <1>7, <1>8 DEF Spares, Halts, Alters
<1>10. r.of \in Upload /\ y.item[r.of].cancelling # "no"
  <2> HIDE DEF u
  <2> QED
    BY <1>1, <1>2, <1>3, <1>8
<1>11. Core(z) /\ (Tight(y) /\ r.pc # "idle" => Tight(z))
  BY <1>3, <1>6, <1>8, <1>9, <1>10, RunChanges
<1>12. Staffed(z)
  BY <1>1, <1>3, <1>7, <1>8, <1>11 DEF Staffed
<1> HIDE DEF u, x
<1> QED
  BY <1>1, <1>4, <1>12, CancelStartsStaffs DEF z, x, u

LEMMA AnsweredStaffs ==
    ASSUME NEW s, Staffed(s), NEW w \in Worker, s.run[w].pc \in Asking, NEW state \in State,
           NEW parts \in SUBSET Part
    PROVE  Staffed(Answered(s, w, state, parts))
<1> DEFINE u == s.run[w].of
           x == Resolved(s, w)
           t == IF Awaited(s, u, w) THEN CancelSees(x, u, state) ELSE x
           v == WithStatus(t, u, state)
           r == [v.run[w] EXCEPT !.got = parts]
           z == [v EXCEPT !.run[w].got = parts]
<1>1. /\ s \in PageState /\ u \in Upload /\ s.run[w].pc # "idle"
  BY DEF Staffed, Core, PageState, Asking
<1>2. /\ Staffs(s, x, {}) /\ x.run = s.run /\ UnawaitedBut(x, w, u)
      /\ ~Awaited(s, u, w) => Unawaited(x, w)
  BY ResolvedStaffs
<1> HIDE DEF x
<1>3. Staffed(t) /\ t.run[w] = s.run[w] /\ Unawaited(t, w)
  <2>1. CASE Awaited(s, u, w)
    <3>1. Staffs(x, CancelSees(x, u, state), {}) /\ Settles(x, CancelSees(x, u, state), u)
      <4> HIDE DEF u
      <4> QED
        BY <1>1, <1>2, CancelSeesStaffs DEF Staffs
    <3>2. x.run[w].pc \in Asking
      BY <1>2
    <3> QED
      BY <1>2, <2>1, <3>1, <3>2 DEF Staffs, Spares, Settles
  <2>2. CASE ~Awaited(s, u, w)
    BY <1>2, <2>2 DEF Staffs
  <2> QED
    BY <2>1, <2>2
<1>4. /\ t.item[u].phase = "cancelled" => Answered(s, w, state, parts) = Ends(t, w)
      /\ t.item[u].phase = "paused" /\ t.item[u].cancelling # "no" => Answered(s, w, state, parts) = Ends(t, w)
      /\ t.item[u].phase = "paused" /\ t.item[u].cancelling = "no" =>
             Answered(s, w, state, parts) = CancelStarts([t EXCEPT !.run[w].pc = "cancelling"], u)
      /\ t.item[u].phase \notin {"paused", "cancelled"} =>
             Answered(s, w, state, parts) = FromPart(z, w, 0)
  BY DEF Answered, x
<1> HIDE DEF t
<1>5. CASE \/ t.item[u].phase = "cancelled"
           \/ t.item[u].phase = "paused" /\ t.item[u].cancelling # "no"
  <2>1. Lets(t, w)
    BY <1>3, <1>5 DEF Lets
  <2>2. Staffed(Ends(t, w))
    BY <1>3, <2>1, EndsStaffs DEF Staffs
  <2> QED
    BY <1>4, <1>5, <2>2
<1>6. CASE t.item[u].phase = "paused" /\ t.item[u].cancelling = "no"
  <2>1. /\ u = t.run[w].of /\ t.run[w].pc \in Asking /\ t.run[w].pc # "idle"
        /\ t.item[t.run[w].of].cancelling = "no"
    BY <1>1, <1>3, <1>6
  <2>2. Staffed(CancelStarts([t EXCEPT !.run[w].pc = "cancelling"], t.run[w].of))
    BY <1>3, <2>1, HaltStaffs
  <2> QED
    BY <1>4, <1>6, <2>1, <2>2
<1>7. CASE t.item[u].phase \notin {"paused", "cancelled"}
  <2>1. Staffed(v) /\ v.run = t.run /\ SameWaits(t, v)
    <3> HIDE DEF u
    <3> QED
      BY <1>1, <1>3, WithStatusStaffs DEF Staffs
  <2> HIDE DEF v
  <2>2. Unawaited(v, w) /\ v \in PageState /\ v.run[w] \in Run /\ v.run[w].pc # "idle" /\ v.run[w].pc # "cancelling"
    BY <1>3, <2>1 DEF Unawaited, SameWaits, Staffed, Core, PageState, Asking
  <2>3. z = [v EXCEPT !.run[w] = r]
    BY <2>2 DEF PageState
  <2>4. r \in Run /\ r.pc # "cancelling" /\ r.pc # "idle" /\ GoesOn(v, w, r)
    BY <2>2 DEF Run, GoesOn
  <2> HIDE DEF r, z
  <2>5. Staffed(z) /\ z.run[w] = r /\ Unawaited(z, w)
    BY <2>1, <2>2, <2>3, <2>4, TurnsStaffs DEF Staffs
  <2>6. 0 \in Nat /\ z.run[w].pc # "idle"
    BY <2>4, <2>5
  <2>7. Staffed(FromPart(z, w, 0))
    BY <2>5, <2>6, FromPartStaffs DEF Staffs
  <2> QED
    BY <1>4, <1>7, <2>7
<1> QED
  BY <1>5, <1>6, <1>7

LEMMA UnansweredStaffs ==
    ASSUME NEW s, Staffed(s), NEW w \in Worker, s.run[w].pc \in Asking, NEW code
    PROVE  Staffed(Unanswered(s, w, code))
<1> DEFINE u == s.run[w].of
           x == Resolved(s, w)
           t == IF Awaited(s, u, w) THEN CancelFails(x, u, code) ELSE x
<1>1. /\ s \in PageState /\ u \in Upload /\ s.run[w].pc # "idle"
  BY DEF Staffed, Core, PageState, Asking
<1>2. /\ Staffs(s, x, {}) /\ x.run = s.run /\ UnawaitedBut(x, w, u)
      /\ ~Awaited(s, u, w) => Unawaited(x, w)
  BY ResolvedStaffs
<1>3. Unanswered(s, w, code) = Fails(t, w)
  BY DEF Unanswered
<1> HIDE DEF x
<1>4. Staffed(t) /\ t.run[w] = s.run[w] /\ Unawaited(t, w)
  <2>1. CASE Awaited(s, u, w)
    <3>1. Staffs(x, CancelFails(x, u, code), {}) /\ Settles(x, CancelFails(x, u, code), u)
      <4> HIDE DEF u
      <4> QED
        BY <1>1, <1>2, CancelFailsStaffs DEF Staffs
    <3>2. x.run[w].pc \in Asking
      BY <1>2
    <3> QED
      BY <1>2, <2>1, <3>1, <3>2 DEF Staffs, Spares, Settles
  <2>2. CASE ~Awaited(s, u, w)
    BY <1>2, <2>2 DEF Staffs
  <2> QED
    BY <2>1, <2>2
<1> HIDE DEF t
<1>5. Staffed(Fails(t, w))
  BY <1>1, <1>4, FailsStaffs DEF Staffs
<1> QED
  BY <1>3, <1>5
-----------------------------------------------------------------------------
(* The page as it is, and its steps.                                       *)
PageStaffed == Staffed(Here)

LEMMA StaffedStep == ASSUME NEW t, Becomes(t), Staffed(t) PROVE PageStaffed'
<1>1. Here' = t
  <2>1. t \in PageState
    BY DEF Staffed, Core
  <2>2. Here' = [item |-> t.item, run |-> t.run, wanted |-> t.wanted, leaving |-> t.leaving, foreign |-> t.foreign]
    BY DEF Becomes, Here
  <2> QED
    BY <2>1, <2>2 DEF PageState
<1> QED
  BY <1>1 DEF PageStaffed

LEMMA StaffedFacts ==
    ASSUME PageStaffed
    PROVE  /\ Staffed(Here) /\ Core(Here) /\ Tight(Here) /\ Here \in PageState
           /\ \A u \in Upload : item[u] \in Item /\ ItemStaffed(Here, u)
           /\ \A w \in Worker : run[w] \in Run /\ (run[w].pc # "idle" => run[w].of \in Upload)
BY HereFields DEF PageStaffed, Staffed, Core, PageState

LEMMA HashEndsStaffed == ASSUME PageStaffed, NEW w \in Worker, HashEnds(w) PROVE PageStaffed'
<1>1. Staffed(Here) /\ Here.run = run /\ Here.item = item /\ run[w].pc = "hash" /\ run[w].pc # "idle"
  BY StaffedFacts, HereFields DEF HashEnds
<1>2. Unawaited(Here, w)
  BY <1>1, Uncounted DEF Staffed
<1>3. CASE item[run[w].of].phase \in Stopped /\ Becomes(Ends(Here, w))
  <2>1. Lets(Here, w)
    BY <1>1, <1>3 DEF Lets, Stopped
  <2> QED
    BY <1>1, <1>2, <1>3, <2>1, EndsStaffs, StaffedStep DEF Staffs
<1>4. CASE Becomes(Asks(Here, run[w].of, w))
  <2> DEFINE t == Asks(Here, run[w].of, w)
  <2>1. /\ Core(t) /\ Free(t) = Free(Here) /\ Ready(t) = Ready(Here) \ {run[w].of}
    BY <1>1, AsksStaffs DEF Staffed
  <2> HIDE DEF t
  <2>2. Staffed(t)
    BY <1>1, <2>1 DEF Staffed, Tight
  <2> QED
    BY <1>4, <2>2, StaffedStep DEF t
<1>5. CASE Becomes(Fails(Here, w))
  BY <1>1, <1>2, <1>5, FailsStaffs, StaffedStep DEF Staffs
<1> QED
  BY <1>3, <1>4, <1>5 DEF HashEnds

LEMMA LookupStaffed == ASSUME IInv, PageStaffed, NEW w \in Worker, Lookup(w) PROVE PageStaffed'
<1> DEFINE u == run[w].of
           t == Answered(Here, w, server[u].state, server[u].parts)
<1>1. Staffed(Here) /\ Here.run = run /\ run[w].pc \in Asking /\ u \in Upload
  BY StaffedFacts, HereFields DEF Lookup, Asking
<1>2. server[u].state \in State /\ server[u].parts \in SUBSET Part
  BY <1>1, Facts DEF Lookup, Known, Transfer
<1>3. Staffed(t)
  BY <1>1, <1>2, AnsweredStaffs
<1> QED
  BY <1>3, StaffedStep DEF Lookup

LEMMA CreateStaffed == ASSUME IInv, PageStaffed, NEW w \in Worker, Create(w) PROVE PageStaffed'
<1> DEFINE u == run[w].of
           t == Answered(Here, w, Opened(u)[u].state, Opened(u)[u].parts)
<1>1. Staffed(Here) /\ Here.run = run /\ run[w].pc \in Asking /\ u \in Upload /\ u \in wanted \cup asked
  BY Facts, StaffedFacts, HereFields DEF Create, Asking, RunSound
<1>2. Opened(u)[u].state \in State /\ Opened(u)[u].parts \in SUBSET Part
  BY <1>1, ServerOpens
<1>3. Staffed(t)
  BY <1>1, <1>2, AnsweredStaffs
<1> QED
  BY <1>3, StaffedStep DEF Create

LEMMA CreateRefusedStaffed == ASSUME PageStaffed, NEW w \in Worker, CreateRefused(w) PROVE PageStaffed'
<1> DEFINE r == [run[w] EXCEPT !.pc = "recheck"]
           t == [Here EXCEPT !.run[w] = r]
<1>1. /\ Here \in PageState /\ Core(Here) /\ Tight(Here) /\ Here.run = run
      /\ run[w] \in Run /\ run[w].of \in Upload
  BY StaffedFacts, HereFields DEF CreateRefused
<1>2. /\ r \in Run /\ r.pc \in {"create", "recheck"} /\ r.pc # "idle" /\ r.pc # "cancelling"
      /\ r.of \in Upload /\ r.of = run[w].of /\ GoesOn(Here, w, r)
  BY <1>1 DEF Run, Asking, GoesOn
<1>3. Becomes(t)
  BY HereFields DEF CreateRefused, Becomes, Here, history
<1> HIDE DEF r
<1>4. Turns(Here, t, w, r)
  BY <1>1, <1>2, RunSet
<1> HIDE DEF t
<1>5. Core(t) /\ Tight(t)
  BY <1>1, <1>2, <1>4, RunChanges
<1> QED
  BY <1>3, <1>5, StaffedStep DEF Staffed

LEMMA QuestionFailsStaffed == ASSUME PageStaffed, NEW w \in Worker, QuestionFails(w) PROVE PageStaffed'
<1>1. Staffed(Here) /\ Here.run = run /\ run[w].pc \in Asking
  BY StaffedFacts, HereFields DEF QuestionFails
<1>2. \A code : Staffed(Unanswered(Here, w, code))
  BY <1>1, UnansweredStaffs
<1>3. \E code : Becomes(Unanswered(Here, w, code))
  BY DEF QuestionFails
<1> QED
  BY <1>2, <1>3, StaffedStep

\* A run that asks nothing may put a part, fail or be given up.
LEMMA RunGoesOn ==
    ASSUME PageStaffed, NEW w \in Worker, run[w].pc \notin Asking, run[w].pc # "idle"
    PROVE  Staffed(Puts(Here, w)) /\ Staffed(Fails(Here, w)) /\ Staffed(GivenUp(Here, w))
<1>1. Staffed(Here) /\ Here.run = run
  BY StaffedFacts, HereFields
<1>2. Unawaited(Here, w)
  BY <1>1, Uncounted DEF Asking, Staffed
<1> QED
  BY <1>1, <1>2, PutsStaffs, FailsStaffs, GivenUpStaffs DEF Staffs

LEMMA SliceEndsStaffed == ASSUME PageStaffed, NEW w \in Worker, SliceEnds(w) PROVE PageStaffed'
BY RunGoesOn, StaffedStep DEF SliceEnds, Asking

LEMMA PutDoneStaffed == ASSUME PageStaffed, NEW w \in Worker, PutDone(w) PROVE PageStaffed'
BY StaffedFacts, HereFields, SentStaffs, StaffedStep DEF PutDone

LEMMA PutRefusedStaffed == ASSUME PageStaffed, NEW w \in Worker, PutRefused(w) PROVE PageStaffed'
<1> DEFINE t == LetGo(Here, run[w].of, w)
<1>1. Staffed(Here) /\ Here.run = run /\ run[w].pc = "put" /\ run[w].of \in Upload
  BY StaffedFacts, HereFields DEF PutRefused
<1>2. Staffed(t) /\ t.run = run
  BY <1>1, LetGoStaffs DEF Staffs
<1>3. Becomes(Fails(t, w))
  BY DEF PutRefused
<1> HIDE DEF t
<1>4. Unawaited(t, w)
  BY <1>1, <1>2, Uncounted DEF Staffed
<1>5. Staffed(Fails(t, w))
  BY <1>1, <1>2, <1>4, FailsStaffs DEF Staffs
<1> QED
  BY <1>3, <1>5, StaffedStep

LEMMA PutLostStaffed == ASSUME PageStaffed, NEW w \in Worker, PutLost(w) PROVE PageStaffed'
BY RunGoesOn, StaffedStep DEF PutLost, Asking

LEMMA AgainStaffs ==
    ASSUME NEW s, Staffed(s), NEW w \in Worker, s.run[w].pc = "recover", s.run[w].try # Attempts
    PROVE  Staffed(Puts([s EXCEPT !.run[w].try = @ + 1], w))
<1> DEFINE r == [s.run[w] EXCEPT !.try = @ + 1]
           t == [s EXCEPT !.run[w] = r]
<1>1. s \in PageState /\ s.run[w] \in Run /\ Unawaited(s, w)
  BY Uncounted DEF Staffed, Core, PageState
<1>2. r \in Run /\ r.pc = "recover" /\ r.pc # "cancelling" /\ GoesOn(s, w, r)
  <2>1. s.run[w].try + 1 \in 1..Attempts
    BY <1>1, QueueAssumption DEF Run
  <2> QED
    BY <1>1, <2>1 DEF Run, GoesOn
<1>3. [s EXCEPT !.run[w].try = @ + 1] = t
  BY <1>1 DEF PageState
<1> HIDE DEF r
<1>4. Staffed(t) /\ t.run[w] = r /\ Unawaited(t, w)
  BY <1>1, <1>2, TurnsStaffs DEF Staffs
<1> HIDE DEF t
<1>5. Staffed(Puts(t, w))
  BY <1>2, <1>4, PutsStaffs DEF Staffs
<1> QED
  BY <1>3, <1>5

LEMMA RecoverStaffed == ASSUME IInv, PageStaffed, NEW w \in Worker, Recover(w) PROVE PageStaffed'
<1> DEFINE u == run[w].of
           i == [item[u] EXCEPT !.status = server[u].state]
           seen == [Here EXCEPT !.item[u].status = server[u].state]
<1>1. /\ Staffed(Here) /\ Core(Here) /\ Here \in PageState /\ Here.run = run /\ Here.item = item
      /\ run[w].pc = "recover" /\ u \in Upload /\ run[w].try # Attempts
      /\ item[u] \in Item /\ ItemStaffed(Here, u)
  BY Facts, StaffedFacts, HereFields DEF Recover, RunSound
<1>2. ASSUME Known(u) PROVE Staffed(seen) /\ seen.run = run
  <2>1. server[u].state \in State
    BY <1>1, <1>2, Facts DEF Known, Transfer
  <2>2. Fits(Here, u, i) /\ (ReadyItem(i) => ReadyItem(item[u]))
    BY <1>1, <2>1 DEF Fits, Item, ReadyItem, ItemStaffed
  <2>3. seen = [Here EXCEPT !.item[u] = i]
    BY <1>1 DEF PageState
  <2>4. i \in Item
    BY <2>2 DEF Fits
  <2> HIDE DEF i, u, seen
  <2>5. Alters(Here, seen, u, i)
    BY <1>1, <2>3, <2>4, ItemSet
  <2>6. Core(seen) /\ (Tight(Here) /\ (ReadyItem(i) => ReadyItem(Here.item[u])) => Tight(seen))
    BY <1>1, <2>2, <2>5, FitsStaffs
  <2> QED
    BY <1>1, <2>2, <2>5, <2>6 DEF Alters, Staffed
<1>3. \/ Known(u) /\ Becomes(Sent(seen, w))
      \/ Known(u) /\ Becomes(Puts([seen EXCEPT !.run[w].try = @ + 1], w))
      \/ Becomes(Puts([Here EXCEPT !.run[w].try = @ + 1], w))
  BY DEF Recover
<1> HIDE DEF seen, u
<1>4. CASE Known(u) /\ Becomes(Sent(seen, w))
  BY <1>1, <1>2, <1>4, SentStaffs, StaffedStep
<1>5. CASE Known(u) /\ Becomes(Puts([seen EXCEPT !.run[w].try = @ + 1], w))
  <2>1. Staffed(Puts([seen EXCEPT !.run[w].try = @ + 1], w))
    BY <1>1, <1>2, <1>5, AgainStaffs
  <2> QED
    BY <1>5, <2>1, StaffedStep
<1>6. CASE Becomes(Puts([Here EXCEPT !.run[w].try = @ + 1], w))
  <2>1. Staffed(Puts([Here EXCEPT !.run[w].try = @ + 1], w))
    BY <1>1, AgainStaffs
  <2> QED
    BY <1>6, <2>1, StaffedStep
<1> QED
  BY <1>3, <1>4, <1>5, <1>6

LEMMA CompleteStaffed == ASSUME PageStaffed, NEW w \in Worker, Complete(w) PROVE PageStaffed'
<1> DEFINE u == run[w].of
           t == Closes(Here, u, "completed")
<1>1. /\ Staffed(Here) /\ Here.run = run /\ run[w].pc = "complete" /\ u \in Upload
      /\ Here.item[u] \in Item
  BY StaffedFacts, HereFields DEF Complete
<1>2. Becomes(Ends(t, w))
  BY DEF Complete
<1>3. /\ Staffed(t) /\ t.run = run
      /\ ~(t.item[u].listed /\ t.item[u].phase = "uploading")
  <2> HIDE DEF u
  <2>1. /\ Staffed(t) /\ t.run = run
        /\ t.item[u] = IF Here.item[u].listed THEN [Here.item[u] EXCEPT !.status = "completed", !.phase = "completed"]
                       ELSE Here.item[u]
    BY <1>1, ClosesStaffs DEF Staffs, Terminal
  <2> HIDE DEF t
  <2> QED
    BY <1>1, <2>1 DEF Item
<1> HIDE DEF t
<1>4. Unawaited(t, w) /\ Lets(t, w)
  BY <1>1, <1>3, Uncounted DEF Staffed, Lets
<1>5. Staffed(Ends(t, w))
  BY <1>3, <1>4, EndsStaffs DEF Staffs
<1> QED
  BY <1>2, <1>5, StaffedStep

LEMMA CompleteRefusedStaffed == ASSUME PageStaffed, NEW w \in Worker, CompleteRefused(w) PROVE PageStaffed'
BY RunGoesOn, StaffedStep DEF CompleteRefused, Asking

LEMMA CompleteLostStaffed == ASSUME PageStaffed, NEW w \in Worker, CompleteLost(w) PROVE PageStaffed'
<1>1. Staffed(Here) /\ Here \in PageState /\ Here.run = run /\ run[w].pc = "complete" /\ run[w] \in Run
  BY StaffedFacts, HereFields DEF CompleteLost
<1>2. CASE run[w].try = Attempts
  <2>1. Staffed(Fails(Here, w))
    BY <1>1, RunGoesOn DEF Asking
  <2> QED
    BY <1>2, <2>1, StaffedStep DEF CompleteLost
<1>3. CASE run[w].try # Attempts
  <2> DEFINE r == [run[w] EXCEPT !.try = @ + 1]
             t == [Here EXCEPT !.run[w] = r]
  <2>1. r \in Run /\ r.pc # "cancelling" /\ GoesOn(Here, w, r)
    <3>1. run[w].try + 1 \in 1..Attempts
      BY <1>1, <1>3, QueueAssumption DEF Run
    <3> QED
      BY <1>1, <3>1 DEF Run, GoesOn
  <2>2. Becomes(t)
    <3>1. [Here EXCEPT !.run[w].try = @ + 1] = t
      BY <1>1 DEF PageState
    <3> HIDE DEF t
    <3> QED
      BY <1>3, <3>1 DEF CompleteLost
  <2>3. Unawaited(Here, w)
    BY <1>1, Uncounted DEF Staffed
  <2>4. Staffed(t)
    <3> HIDE DEF r
    <3> QED
      BY <1>1, <2>1, <2>3, TurnsStaffs DEF Staffs
  <2> HIDE DEF t
  <2> QED
    BY <2>2, <2>4, StaffedStep
<1> QED
  BY <1>2, <1>3
LEMMA CancelLookupStaffed == ASSUME IInv, PageStaffed, NEW u \in Upload, CancelLookup(u) PROVE PageStaffed'
<1>1. Staffed(Here)
  BY StaffedFacts
<1>2. \A code : Staffed(CancelFails(Here, u, code))
  BY <1>1, CancelFailsStaffs DEF Staffs
<1>3. Known(u) => Staffed(CancelSees(Here, u, server[u].state))
  <2>1. Known(u) => server[u].state \in State
    BY Facts DEF Known, Transfer
  <2> QED
    BY <1>1, <2>1, CancelSeesStaffs DEF Staffs
<1>4. \/ Known(u) /\ Becomes(CancelSees(Here, u, server[u].state))
      \/ \E code : Becomes(CancelFails(Here, u, code))
  BY DEF CancelLookup
<1> QED
  BY <1>2, <1>3, <1>4, StaffedStep

LEMMA CancelDeletesStaffed == ASSUME PageStaffed, NEW u \in Upload, CancelDeletes(u) PROVE PageStaffed'
<1>1. /\ Staffed(Here) /\ Core(Here) /\ Tight(Here) /\ Here \in PageState /\ Here.item = item
      /\ item[u] \in Item /\ ItemStaffed(Here, u) /\ item[u].cancelling = "delete"
  BY StaffedFacts, HereFields DEF CancelDeletes
<1>2. CASE Becomes(CancelEnds(WithPhase(Here, u, "cancelled"), u))
  <2> DEFINE t == WithPhase(Here, u, "cancelled")
  <2>1. "cancelled" \in Phase \ {"waiting", "uploading"}
    BY DEF Phase, Terminal
  <2>2. /\ Staffed(t)
        /\ t.item[u] = IF item[u].listed THEN [item[u] EXCEPT !.phase = "cancelled"] ELSE item[u]
    BY <1>1, <2>1, WithPhaseStaffs DEF Staffs
  <2> HIDE DEF t
  <2>3. ~(t.item[u].listed /\ t.item[u].phase = "uploading")
    BY <1>1, <2>2 DEF Item
  <2>4. Staffed(CancelEnds(t, u))
    BY <2>2, <2>3, CancelEndsStaffs DEF Staffs
  <2> QED
    BY <1>2, <2>4, StaffedStep DEF t
<1>3. CASE \E code : Becomes(CancelFails(Here, u, code))
  BY <1>1, <1>3, CancelFailsStaffs, StaffedStep DEF Staffs
<1>4. CASE Becomes([Here EXCEPT !.item[u].cancelling = "check"])
  <2> DEFINE i == [item[u] EXCEPT !.cancelling = "check"]
             t == [Here EXCEPT !.item[u] = i]
  <2>1. /\ i \in Item /\ i.cancelling # "no" /\ i.cancelling # "await"
        /\ i.resolving \in {Nobody, Here.item[u].resolving}
        /\ ReadyItem(i) <=> ReadyItem(Here.item[u])
        /\ i.listed /\ i.phase = "waiting" => i.file # None
        /\ i.listed /\ i.phase = "uploading" => \E w \in Worker : Runs(Here, w, u)
    BY <1>1 DEF Item, ReadyItem, ItemStaffed
  <2>2. [Here EXCEPT !.item[u].cancelling = "check"] = t
    BY <1>1 DEF PageState
  <2> HIDE DEF i
  <2>3. Alters(Here, t, u, i)
    BY <1>1, <2>1, ItemSet
  <2> HIDE DEF t
  <2>4. Core(t) /\ (Tight(Here) /\ (ReadyItem(i) => ReadyItem(Here.item[u])) => Tight(t))
    BY <1>1, <2>1, <2>3, ItemChanges
  <2>5. Staffed(t)
    BY <1>1, <2>1, <2>4 DEF Staffed
  <2> QED
    BY <1>4, <2>2, <2>5, StaffedStep
<1> QED
  BY <1>2, <1>3, <1>4 DEF CancelDeletes

LEMMA CancelChecksStaffed == ASSUME PageStaffed, NEW u \in Upload, CancelChecks(u) PROVE PageStaffed'
<1>1. Staffed(Here) /\ "completed" \in State
  BY StaffedFacts DEF State, Terminal
<1>2. Staffed(CancelSees(Here, u, "completed")) /\ Staffed(CancelFails(Here, u, "upload_conflict"))
  BY <1>1, CancelSeesStaffs, CancelFailsStaffs DEF Staffs
<1> QED
  BY <1>2, StaffedStep DEF CancelChecks

LEMMA AddStaffed == ASSUME PageStaffed, NEW u \in Upload, Add(u) PROVE PageStaffed'
<1> DEFINE i == [NewItem EXCEPT !.listed = TRUE, !.file = Original]
           t == [Here EXCEPT !.item[u] = i]
<1>1. /\ Core(Here) /\ Tight(Here) /\ Here \in PageState /\ Here.item = item
      /\ item[u] = NewItem /\ item[u] \in Item
  BY StaffedFacts, HereFields DEF Add
<1>2. i \in Item /\ Fits(Here, u, i)
  <2>1. i \in Item
    BY <1>1, QueueAssumption DEF NewItem, Item
  <2>2. /\ i.phase = "waiting" /\ i.file = Original /\ i.resolving = NewItem.resolving
        /\ i.cancelling = NewItem.cancelling /\ i.awaited = NewItem.awaited
    BY DEF NewItem
  <2>3. Original # None
    BY QueueAssumption
  <2> HIDE DEF i
  <2> QED
    BY <1>1, <2>1, <2>2, <2>3 DEF Fits
<1>3. Becomes(Pump(t))
  BY DEF Add
<1> HIDE DEF i
<1>4. Alters(Here, t, u, i)
  BY <1>1, <1>2, ItemSet
<1> HIDE DEF t
<1>5. Core(t) /\ NearlyTight(t)
  BY <1>1, <1>2, <1>4, FitsStaffs
<1> QED
  BY <1>3, <1>5, PumpStaffs, StaffedStep DEF Staffs

LEMMA AttachFileStaffed == ASSUME IInv, PageStaffed, NEW c \in Content \cup {None}, AttachFile(c) PROVE PageStaffed'
<1> DEFINE u == attachment
           s == WithPhase(Here, u, "hashing")
           i == [s.item[u] EXCEPT !.attaching = @ \cup {c}]
           t == [s EXCEPT !.item[u] = i]
<1>1. Staffed(Here) /\ u \in Upload
  BY StaffedFacts DEF AttachFile, IInv
<1>2. CASE Becomes(Here)
  BY <1>1, <1>2, StaffedStep
<1>3. CASE c # None /\ Becomes([s EXCEPT !.item[u].attaching = @ \cup {c}])
  <2> HIDE DEF u
  <2>1. Staffed(s)
    BY <1>1, WithPhaseStaffs DEF Staffs, Phase
  <2> HIDE DEF s
  <2>2. s \in PageState /\ Core(s) /\ Tight(s) /\ s.item[u] \in Item /\ ItemStaffed(s, u)
    BY <1>1, <2>1 DEF Staffed, Core, PageState
  <2>3. i \in Item /\ Fits(s, u, i) /\ (ReadyItem(i) => ReadyItem(s.item[u]))
    BY <1>3, <2>2 DEF Item, Fits, ItemStaffed, ReadyItem
  <2>4. [s EXCEPT !.item[u].attaching = @ \cup {c}] = t
    BY <1>1, <2>2 DEF PageState
  <2> HIDE DEF i
  <2>5. Alters(s, t, u, i)
    BY <1>1, <2>2, <2>3, ItemSet
  <2> HIDE DEF t
  <2>6. Staffed(t)
    BY <1>1, <2>2, <2>3, <2>5, FitsStaffs DEF Staffed
  <2> QED
    BY <1>3, <2>4, <2>6, StaffedStep
<1> QED
  BY <1>2, <1>3 DEF AttachFile

LEMMA AttachedStaffs ==
    ASSUME NEW s, Staffed(s), NEW u \in Upload, NEW c \in Content
    PROVE  Staffed(Attached(s, u, c))
<1>1. CASE s.item[u].phase \in Stopped
  BY <1>1 DEF Attached
<1>2. CASE s.item[u].phase \notin Stopped /\ c # Original
  <2>1. Attached(s, u, c) = WithPhase(s, u, "reselect")
    BY <1>2 DEF Attached
  <2> QED
    BY <2>1, WithPhaseStaffs DEF Staffs, Phase
<1>3. CASE s.item[u].phase \notin Stopped /\ c = Original
  <2> DEFINE i == [s.item[u] EXCEPT !.file = c, !.phase = "waiting"]
             t == Update(s, u, i)
  <2>1. Core(s) /\ Tight(s) /\ s.item[u] \in Item
    BY DEF Staffed, Core, PageState
  <2>2. Fits(s, u, i) /\ i.listed = s.item[u].listed
    <3>1. c # None /\ "waiting" \in Phase
      BY QueueAssumption DEF Phase
    <3> QED
      BY <2>1, <3>1 DEF Fits, Item
  <2>3. Attached(s, u, c) = Pump(t)
    BY <1>3 DEF Attached
  <2> HIDE DEF i
  <2>4. Core(t) /\ NearlyTight(t)
    BY <2>1, <2>2, UpdateStaffs
  <2> HIDE DEF t
  <2> QED
    BY <2>3, <2>4, PumpStaffs DEF Staffs
<1> QED
  BY <1>1, <1>2, <1>3

LEMMA AttachEndsStaffed ==
    ASSUME PageStaffed, NEW u \in Upload, NEW c \in Content, AttachEnds(u, c)
    PROVE  PageStaffed'
<1> DEFINE i == [item[u] EXCEPT !.attaching = @ \ {c}]
           s == [Here EXCEPT !.item[u] = i]
<1>1. /\ Core(Here) /\ Tight(Here) /\ Here \in PageState /\ Here.item = item
      /\ item[u] \in Item /\ ItemStaffed(Here, u)
  BY StaffedFacts, HereFields
<1>2. i \in Item /\ Fits(Here, u, i) /\ (ReadyItem(i) => ReadyItem(Here.item[u]))
  BY <1>1 DEF Item, Fits, ReadyItem, ItemStaffed
<1>3. [Here EXCEPT !.item[u].attaching = @ \ {c}] = s
  BY <1>1 DEF PageState
<1>4. Becomes(Attached(s, u, c)) \/ Becomes(s)
  BY <1>3 DEF AttachEnds
<1> HIDE DEF i
<1>5. Alters(Here, s, u, i)
  BY <1>1, <1>2, ItemSet
<1> HIDE DEF s
<1>6. Staffed(s)
  BY <1>1, <1>2, <1>5, FitsStaffs DEF Staffed
<1> QED
  BY <1>4, <1>6, AttachedStaffs, StaffedStep

LEMMA PauseStaffed == ASSUME PageStaffed, NEW u \in Upload, Pause(u) PROVE PageStaffed'
<1> DEFINE t == WithPhase(Here, u, "paused")
<1>1. Becomes(Abort(t, u))
  BY DEF Pause
<1>2. Staffed(t)
  BY StaffedFacts, WithPhaseStaffs DEF Staffs, Phase
<1> HIDE DEF t
<1> QED
  BY <1>1, <1>2, AbortStaffs, StaffedStep DEF Staffs

LEMMA ResumeStaffed == ASSUME PageStaffed, NEW u \in Upload, Resume(u) PROVE PageStaffed'
<1> DEFINE i == [item[u] EXCEPT !.phase = "waiting"]
           t == Update(Here, u, i)
<1>1. /\ Core(Here) /\ Tight(Here) /\ Here.item = item /\ item[u] \in Item /\ "waiting" \in Phase
      /\ item[u].file # None
  BY StaffedFacts, HereFields DEF Resume, Phase
<1>2. Fits(Here, u, i) /\ i.listed = Here.item[u].listed
  BY <1>1 DEF Fits, Item
<1>3. Becomes(Pump(t))
  BY <1>1 DEF Resume, WithPhase
<1> HIDE DEF i
<1>4. Core(t) /\ NearlyTight(t)
  BY <1>1, <1>2, UpdateStaffs
<1> HIDE DEF t
<1> QED
  BY <1>3, <1>4, PumpStaffs, StaffedStep DEF Staffs

\* A cancellation may begin of any item.
LEMMA CancelBegins ==
    ASSUME NEW s, Staffed(s), NEW u \in Upload
    PROVE  Staffed(CancelStarts(s, u))
<1> DEFINE i == [s.item[u] EXCEPT !.cancelling = "get"]
           t == [s EXCEPT !.item[u] = i]
<1>1. /\ s \in PageState /\ Core(s) /\ Tight(s) /\ s.item[u] \in Item /\ ItemStaffed(s, u)
  BY DEF Staffed, Core, PageState
<1>2. /\ i \in Item /\ i.cancelling # "no" /\ i.cancelling # "await"
      /\ i.resolving \in {Nobody, s.item[u].resolving}
      /\ ReadyItem(i) <=> ReadyItem(s.item[u])
      /\ i.listed /\ i.phase = "waiting" => i.file # None
      /\ i.listed /\ i.phase = "uploading" => \E w \in Worker : Runs(s, w, u)
  BY <1>1 DEF Item, ReadyItem, ItemStaffed
<1>3. [s EXCEPT !.item[u].cancelling = "get"] = t
  BY <1>1 DEF PageState
<1> HIDE DEF i
<1>4. Alters(s, t, u, i)
  BY <1>1, <1>2, ItemSet
<1> HIDE DEF t
<1>5. Core(t) /\ (Tight(s) /\ (ReadyItem(i) => ReadyItem(s.item[u])) => Tight(t))
  BY <1>1, <1>2, <1>4, ItemChanges
<1>6. Staffed(t)
  BY <1>1, <1>2, <1>5 DEF Staffed
<1> QED
  BY <1>1, <1>3, <1>6, CancelStartsStaffs

LEMMA CancelStaffed == ASSUME PageStaffed, NEW u \in Upload, Cancel(u) PROVE PageStaffed'
BY StaffedFacts, CancelBegins, StaffedStep DEF Cancel

LEMMA RemoveStaffed == ASSUME PageStaffed, NEW u \in Upload, Remove(u) PROVE PageStaffed'
<1> DEFINE i == [item[u] EXCEPT !.removing = TRUE]
           t == [Here EXCEPT !.item[u] = i]
<1>1. /\ Staffed(Here) /\ Core(Here) /\ Tight(Here) /\ Here \in PageState /\ Here.item = item
      /\ item[u] \in Item /\ ItemStaffed(Here, u)
  BY StaffedFacts, HereFields
<1>2. CASE Becomes(Leaves(Here, u))
  BY <1>1, <1>2, LeavesStaffs, StaffedStep DEF Staffs
<1>3. CASE Becomes(CancelStarts([Here EXCEPT !.item[u].removing = TRUE], u))
  <2>1. [Here EXCEPT !.item[u].removing = TRUE] = t
    BY <1>1 DEF PageState
  <2>2. i \in Item /\ Fits(Here, u, i) /\ (ReadyItem(i) => ReadyItem(Here.item[u]))
    BY <1>1 DEF Item, Fits, ReadyItem, ItemStaffed
  <2> HIDE DEF i
  <2>3. Alters(Here, t, u, i)
    BY <1>1, <2>2, ItemSet
  <2> HIDE DEF t
  <2>4. Staffed(t)
    BY <1>1, <2>2, <2>3, FitsStaffs DEF Staffed
  <2> QED
    BY <1>3, <2>1, <2>4, CancelBegins, StaffedStep
<1> QED
  BY <1>2, <1>3 DEF Remove

\* A page just loaded: nothing waits, no run is under way.
LEMMA LoadedStaffed ==
    ASSUME NEW s \in PageState, s.run = [w \in Worker |-> Idle],
           \A u \in Upload : /\ ~ReadyItem(s.item[u]) /\ s.item[u].resolving = Nobody
                             /\ s.item[u].cancelling = "no"
                             /\ (s.item[u].listed => s.item[u].phase \notin {"waiting", "uploading"})
    PROVE  Staffed(s)
<1>1. \A w \in Worker : s.run[w].pc = "idle"
  BY DEF Idle
<1>2. \A u \in Upload : ItemStaffed(s, u)
  BY <1>1 DEF ItemStaffed, Halts
<1>3. Ready(s) = {}
  BY DEF Ready, ReadyItem
<1> QED
  BY <1>1, <1>2, <1>3 DEF Staffed, Core, Tight

LEMMA EraseLandsStaffed == ASSUME PageStaffed, NEW u \in Upload, EraseLands(u) PROVE PageStaffed'
<1> DEFINE t == [Here EXCEPT !.leaving = @ \ {u}]
<1>1. Here' = t
  BY DEF EraseLands, Here, history
<1>2. /\ Staffed(Here) /\ Here \in PageState
      /\ t \in PageState /\ t.item = Here.item /\ t.run = Here.run
  BY StaffedFacts DEF PageState
<1> HIDE DEF t
<1>3. Staffed(t)
  BY <1>2 DEF Staffed, Core, Tight, ItemStaffed, Runs, Creates, Halts, Ready, ReadyItem, Free
<1> QED
  BY <1>1, <1>3 DEF PageStaffed

LEMMA ReloadStaffed == ASSUME IInv, Reload PROVE PageStaffed'
<1> DEFINE t == [item |-> [u \in Upload |-> Restored(u)], run |-> [w \in Worker |-> Idle],
                 wanted |-> stored, leaving |-> {}, foreign |-> foreign]
<1>1. Here' = t
  BY DEF Reload, Here, history
<1>2. NewItem \in Item /\ Idle \in Run
  BY QueueAssumption DEF NewItem, Item, Phase, Idle, Run, Part
<1>3. ASSUME NEW u \in Upload
      PROVE  /\ Restored(u) \in Item /\ ~ReadyItem(Restored(u)) /\ Restored(u).resolving = Nobody
             /\ Restored(u).cancelling = "no"
             /\ Restored(u).listed => Restored(u).phase \notin {"waiting", "uploading"}
  <2>1. CASE u \in stored
    <3>1. Restored(u) = [NewItem EXCEPT !.listed = TRUE, !.phase = "reselect", !.sha256 = TRUE]
          /\ "reselect" \in Phase
      BY <2>1 DEF Restored, Phase
    <3> QED
      BY <1>2, <3>1, ZenonT(40) DEF NewItem, Item, ReadyItem
  <2>2. CASE u \notin stored /\ item[u] = NewItem
    <3>1. Restored(u) = NewItem
      BY <2>2 DEF Restored
    <3> QED
      BY <1>2, <3>1 DEF NewItem, Item, ReadyItem
  <2>3. CASE u \notin stored /\ item[u] # NewItem
    <3>1. Restored(u) = [NewItem EXCEPT !.phase = "cancelled"] /\ "cancelled" \in Phase
      BY <2>3 DEF Restored, Phase, Terminal
    <3> QED
      BY <1>2, <3>1 DEF NewItem, Item, ReadyItem
  <2> QED
    BY <2>1, <2>2, <2>3
<1>4. t \in PageState
  <2>1. stored \subseteq Upload /\ foreign \subseteq Upload
    BY Facts, HereFields, Fields DEF IInv
  <2> QED
    BY <1>2, <1>3, <2>1 DEF PageState
<1>5. Staffed(t)
  BY <1>3, <1>4, LoadedStaffed
<1> HIDE DEF t
<1> QED
  BY <1>1, <1>5 DEF PageStaffed

LEMMA InitStaffed == Init => PageStaffed
<1> SUFFICES ASSUME Init PROVE PageStaffed
  OBVIOUS
<1>1. NewItem \in Item /\ Idle \in Run
  BY QueueAssumption DEF NewItem, Item, Phase, Idle, Run, Part
<1>2. Here \in PageState
  BY <1>1 DEF Init, Here, PageState
<1>3. \A u \in Upload : /\ ~ReadyItem(item[u]) /\ item[u].resolving = Nobody
                        /\ item[u].cancelling = "no" /\ ~item[u].listed
  BY DEF Init, NewItem, ReadyItem
<1>4. Here.run = [w \in Worker |-> Idle]
  BY HereFields DEF Init
<1> QED
  BY <1>2, <1>3, <1>4, HereFields, LoadedStaffed DEF PageStaffed

LEMMA RunStepStaffed == ASSUME IInv, PageStaffed, NEW w \in Worker, RunStep(w) PROVE PageStaffed'
BY HashEndsStaffed, LookupStaffed, CreateStaffed, CreateRefusedStaffed, QuestionFailsStaffed,
   SliceEndsStaffed, PutDoneStaffed, PutRefusedStaffed, PutLostStaffed, RecoverStaffed,
   CompleteStaffed, CompleteRefusedStaffed, CompleteLostStaffed DEF RunStep

LEMMA OpenPickerStaffed == ASSUME PageStaffed, NEW u \in Upload, OpenPicker(u) PROVE PageStaffed'
<1>1. Becomes(Here)
  BY DEF OpenPicker
<1> QED
  BY <1>1, StaffedStep DEF PageStaffed

LEMMA UserStepStaffed == ASSUME IInv, PageStaffed, UserStep PROVE PageStaffed'
BY AddStaffed, OpenPickerStaffed, PauseStaffed, ResumeStaffed, CancelStaffed, RemoveStaffed,
   AttachFileStaffed, ReloadStaffed DEF UserStep

LEMMA NextStaffed == IInv /\ PageStaffed /\ [Next]_vars => PageStaffed'
<1> SUFFICES ASSUME IInv, PageStaffed, [Next]_vars PROVE PageStaffed'
  OBVIOUS
<1>1. CASE \E w \in Worker : RunStep(w)
  BY <1>1, RunStepStaffed
<1>2. CASE \E u \in Upload : CancelStep(u)
  BY <1>2, CancelLookupStaffed, CancelDeletesStaffed, CancelChecksStaffed DEF CancelStep
<1>3. CASE \E u \in Upload, c \in Content : AttachEnds(u, c)
  BY <1>3, AttachEndsStaffed
<1>4. CASE UserStep
  BY <1>4, UserStepStaffed
<1>5. CASE UNCHANGED <<page, history>>
  <2>1. Here' = Here
    BY <1>5 DEF Here, page, history
  <2> QED
    BY <2>1 DEF PageStaffed
<1>6. ASSUME \/ UNCHANGED vars
             \/ \E w \in Worker : Arrives(w)
             \/ \E u \in Upload : DeleteArrives(u) \/ Reconcile(u) \/ Reap(u) \/ RecordLands(u)
      PROVE  UNCHANGED <<page, history>>
  BY <1>6 DEF vars, Arrives, DeleteArrives, Reconcile, Reap, RecordLands
<1>7. CASE \E u \in Upload : EraseLands(u)
  BY <1>7, EraseLandsStaffed
<1> QED
  BY <1>1, <1>2, <1>3, <1>4, <1>5, <1>6, <1>7 DEF Next

\* Nobody waits for what will not come, for any number of uploads and workers,
\* however their runs, cancellations and the user's requests cross.
THEOREM NobodyIsStranded == Spec => []NobodyStranded
<1>1. Init => PageStaffed
  BY InitStaffed
<1>2. IInv /\ PageStaffed /\ [Next]_vars => PageStaffed'
  BY NextStaffed
<1>3. PageStaffed => NobodyStranded
  <2> SUFFICES ASSUME PageStaffed PROVE NobodyStranded
    OBVIOUS
  <2>1. /\ Core(Here) /\ Tight(Here) /\ \A u \in Upload : ItemStaffed(Here, u)
        /\ Here.item = item /\ Here.run = run
    BY StaffedFacts, HereFields
  <2>2. \A u \in Upload : item[u].listed /\ item[u].phase = "waiting" =>
            item[u].file # None /\ \A w \in Worker : run[w].pc # "idle"
    BY <2>1 DEF ItemStaffed, Tight, Ready, Free
  <2>3. \A u \in Upload : item[u].listed /\ item[u].phase = "uploading" => \E w \in Worker : run[w].of = u
    BY <2>1 DEF ItemStaffed, Runs
  <2>4. \A u \in Upload : item[u].cancelling = "await" =>
            run[item[u].awaited].of = u /\ run[item[u].awaited].pc \in {"create", "recheck"}
    BY <2>1 DEF ItemStaffed, Creates
  <2>5. \A w \in Worker : run[w].pc = "cancelling" => item[run[w].of].cancelling # "no"
    <3> SUFFICES ASSUME NEW w \in Worker, run[w].pc = "cancelling" PROVE item[run[w].of].cancelling # "no"
      OBVIOUS
    <3>1. run[w].of \in Upload /\ Halts(Here, w, run[w].of)
      BY StaffedFacts, <2>1 DEF Halts
    <3> QED
      BY <2>1, <3>1 DEF ItemStaffed
  <2> QED
    BY <2>2, <2>3, <2>4, <2>5 DEF NobodyStranded
<1> QED
  BY <1>1, <1>2, <1>3, IInvHolds, PTL DEF Spec
=============================================================================
