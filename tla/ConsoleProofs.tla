---------------------------- MODULE ConsoleProofs ----------------------------
(***************************************************************************)
(* What a page of the console owes its user, for any set of pages that keep  *)
(* four rules, any number of requests under way, commands and selections.    *)
(***************************************************************************)
EXTENDS Console, FiniteSetTheorems, SequenceTheorems, TLAPS

-----------------------------------------------------------------------------
(* The invariant                                                             *)

ThePage  == PAGES[page]
Loads    == LoadsFor(ThePage, slot)
Commands == CommandsOn(ThePage, slot)

\* A request is one of this slot's; only loads are dropped, only commands outlive the
\* page; and the effect of a command that was served is the server's.
LoadOf(c, l) ==
  /\ c.h = Does(l) /\ ~c.gone
  /\ c.tied => l.guard = "alive" /\ l.ways \cap {"mount", "select"} # {}
CommandOf(c, x) ==
  /\ c.h = Does(x) /\ ~c.dropped /\ ~c.tied
  /\ c.lowers = {x.flag} \ {None}
Known(c) ==
  /\ c.loads => \E l \in Loads : LoadOf(c, l)
  /\ ~c.loads => \E x \in Commands : CommandOf(c, x)
  /\ None \notin c.lowers
  /\ ~Keyed => c.of = First
Served(c, d) == ~c.loads /\ c.answer = "ok" => c.no \in d[c.of] /\ (Told(c) => c.no \in c.got)

CallsKnown(q, d) == \A i \in 1..Len(q) : Known(q[i]) /\ Served(q[i], d)

Consistent ==
  /\ CallsKnown(calls, data)
  /\ \A k \in Keys : answered[k] \subseteq data[k]
  /\ ~Keyed => sel = First /\ (shown # Nothing => shown.of = First)
  /\ ~here => shown = Nothing /\ \A i \in 1..Len(calls) : calls[i].gone
  /\ issued = 0 => \A i \in 1..Len(calls) : calls[i].loads

\* Whose answer the page still waits for.
Active(c) == ~c.dropped /\ ~c.gone

\* What may be dropped lowers its spinner and nothing else.
LowerTheirs(q) ==
  \A i \in 1..Len(q) : q[i].loads /\ (q[i].tied \/ q[i].h.guard = "latest") => q[i].lowers \subseteq {q[i].h.spinner}

\* Each of the flags u has a request that lowers it; and the flag of what is to be
\* submitted once is up while a request lowers it, and there is one.
HaveCalls(q, u) == \A f \in u : \E i \in 1..Len(q) : Active(q[i]) /\ f \in q[i].lowers
AreSingle(q, u) ==
  \A f \in OnceFlags(ThePage, slot) : \A i \in 1..Len(q) : Active(q[i]) /\ f \in q[i].lowers =>
    /\ f \in u
    /\ \A j \in 1..Len(q) : Active(q[j]) /\ f \in q[j].lowers => i = j
FlagsInv == LowerTheirs(calls) /\ HaveCalls(calls, up) /\ AreSingle(calls, up)

\* The answer of a request will tell of effect n, or be a failure.
Knows(c, n, d) ==
  \/ c.answer = "failed"
  \/ c.answer = "sent" /\ n \in d[c.of]
  \/ c.answer = "ok" /\ n \in c.got
\* A load that nothing drops brings it.
Brings(c, k, n, d) == c.loads /\ Told(c) /\ ~c.dropped /\ ~c.tied /\ c.h.guard # "latest" /\ c.of = k /\ Knows(c, n, d)

\* Its answer may be shown without being excused.
Fresh(c) == Told(c) /\ Active(c) /\ ~c.late

\* What was answered is in what is shown, or in what will be, or a load brings it that
\* was started later.
CallsTell(q, a, d) ==
  \A j \in 1..Len(q) : Fresh(q[j]) => \A n \in a[q[j].of] :
    Knows(q[j], n, d) \/ \E i \in 1..Len(q) : i > j /\ Brings(q[i], q[j].of, n, d)
Tells(s, q, a, d) == \A n \in a[s.of] : n \in s.data \/ \E i \in 1..Len(q) : Brings(q[i], s.of, n, d)
OwnInv == CallsTell(calls, answered, data) /\ (shown # Nothing /\ ~excused => Tells(shown, calls, answered, data))

\* A load of the selection is under way wherever another one is shown, and behind every
\* load of another one.
Follows(c, k) == c.loads /\ Told(c) /\ ~c.dropped /\ c.of = k
IsFollowed(q, k) == \E i \in 1..Len(q) : Follows(q[i], k)
CallsFollow(q, k) ==
  \A j \in 1..Len(q) : q[j].loads /\ Fresh(q[j]) /\ q[j].of # k => \E i \in 1..Len(q) : i > j /\ Follows(q[i], k)
SelInv ==
  ~Stays =>
    /\ CallsFollow(calls, sel)
    /\ shown # Nothing /\ ~excused /\ shown.of # sel => IsFollowed(calls, sel)

-----------------------------------------------------------------------------
(* Sequences of requests                                                     *)

\* A finite set as a sequence: each of its elements once.
LEMMA SetToSeqFacts ==
  ASSUME NEW S, IsFiniteSet(S)
  PROVE  /\ SetToSeq(S) \in Seq(S)
         /\ \A x \in S : \E i \in 1..Len(SetToSeq(S)) : SetToSeq(S)[i] = x
         /\ \A i, j \in 1..Len(SetToSeq(S)) : SetToSeq(S)[i] = SetToSeq(S)[j] => i = j
  <1> DEFINE n == Cardinality(S)
             s == SetToSeq(S)
  <1>1. n \in Nat /\ ExistsBijection(1..n, S)  BY FS_CardinalityType
  <1>2. \E f \in [1..n -> S] : IsInjective(f)
    BY <1>1 DEF ExistsBijection, Bijection, Injection
  <1>3. s \in [1..n -> S] /\ IsInjective(s)  BY <1>2 DEF SetToSeq
  <1>4. IsFiniteSet(1..n) /\ Cardinality(1..n) = n  BY <1>1, FS_Interval
  <1>5. s \in Injection(1..n, S)  BY <1>3 DEF Injection
  <1>6. s \in Surjection(1..n, S)  BY <1>4, <1>5, FS_Injection
  <1>7. s \in Seq(S) /\ Len(s) = n
    <2> HIDE DEF s
    <2>1. s \in Seq(S)  BY <1>1, <1>3, SeqDef
    <2>2. QED  BY <1>1, <1>3, <2>1, LenProperties
  <1>8. \A x \in S : \E i \in 1..n : s[i] = x  BY <1>6 DEF Surjection
  <1>9. \A i, j \in 1..n : s[i] = s[j] => i = j  BY <1>3 DEF IsInjective
  <1>10. QED  BY <1>7, <1>8, <1>9

\* What is left when one element is taken out.
LEMMA RemoveAtFacts ==
  ASSUME NEW S, NEW q \in Seq(S), NEW i \in 1..Len(q)
  PROVE  /\ RemoveAt(q, i) \in Seq(S)
         /\ Len(RemoveAt(q, i)) = Len(q) - 1
         /\ \A j \in 1..Len(q) - 1 : /\ j < i => RemoveAt(q, i)[j] = q[j]
                                     /\ j >= i => RemoveAt(q, i)[j] = q[j + 1]
  <1> DEFINE a == SubSeq(q, 1, i - 1)
             b == SubSeq(q, i + 1, Len(q))
  <1>1. Len(q) \in Nat /\ i \in Int /\ \A j \in 1..Len(q) : q[j] \in S
    BY LenProperties, ElementOfSeq
  <1>2. /\ a \in Seq(S) /\ Len(a) = i - 1
        /\ \A j \in 1..i - 1 : a[j] = q[j]
    <2>1. \A j \in 1..i - 1 : q[j] \in S  BY <1>1
    <2>2. /\ a \in Seq(S)
          /\ Len(a) = IF 1 <= i - 1 THEN (i - 1) - 1 + 1 ELSE 0
          /\ \A j \in 1..(i - 1) - 1 + 1 : a[j] = q[1 + j - 1]
      BY <1>1, <2>1, SubSeqProperties
    <2>3. QED  BY <1>1, <2>2
  <1>3. /\ b \in Seq(S) /\ Len(b) = Len(q) - i
        /\ \A j \in 1..Len(q) - i : b[j] = q[i + j]
    <2>1. \A j \in i + 1..Len(q) : q[j] \in S  BY <1>1
    <2>2. /\ b \in Seq(S)
          /\ Len(b) = IF i + 1 <= Len(q) THEN Len(q) - (i + 1) + 1 ELSE 0
          /\ \A j \in 1..Len(q) - (i + 1) + 1 : b[j] = q[i + 1 + j - 1]
      BY <1>1, <2>1, SubSeqProperties
    <2>3. QED  BY <1>1, <2>2
  <1> HIDE DEF a, b
  <1>4. /\ a \o b \in Seq(S)
        /\ Len(a \o b) = Len(a) + Len(b)
        /\ \A j \in 1..Len(a) + Len(b) : (a \o b)[j] = IF j <= Len(a) THEN a[j] ELSE b[j - Len(a)]
    BY <1>2, <1>3, ConcatProperties
  <1>5. RemoveAt(q, i) = a \o b  BY DEF RemoveAt, a, b
  <1>6. ASSUME NEW j \in 1..Len(q) - 1
        PROVE  /\ j < i => (a \o b)[j] = q[j]
               /\ j >= i => (a \o b)[j] = q[j + 1]
    <2>1. j \in Int  BY <1>1
    <2>2. ASSUME j < i PROVE (a \o b)[j] = q[j]  BY <1>1, <1>2, <1>3, <1>4, <2>2
    <2>3. ASSUME j >= i PROVE (a \o b)[j] = q[j + 1]
      <3>1. (a \o b)[j] = b[j - (i - 1)]  BY <1>1, <1>2, <1>3, <1>4, <2>3
      <3>2. j - (i - 1) \in 1..Len(q) - i  BY <1>1, <2>3
      <3>3. b[j - (i - 1)] = q[i + (j - (i - 1))]  BY <1>3, <3>2
      <3>4. i + (j - (i - 1)) = j + 1  BY <1>1
      <3>5. QED  BY <3>1, <3>3, <3>4
    <2>4. QED  BY <2>2, <2>3
  <1>7. Len(a) + Len(b) = Len(q) - 1  BY <1>1, <1>2, <1>3
  <1>8. QED  BY <1>4, <1>5, <1>6, <1>7
-----------------------------------------------------------------------------
(* Pages                                                                     *)

\* The tables hold what the page says.
LEMMA PageFacts ==
  ASSUME TypeOK
  PROVE  /\ ThePage \in Pages /\ ThePage \in PageRecord /\ ThePage.name = page /\ slot \in Slots(ThePage)
         /\ Loads \subseteq LoadRecord /\ Commands \subseteq CommandRecord
         /\ \A w \in Ways : /\ LOADS[page][slot][w] = {l \in Loads : w \in l.ways}
                            /\ LOADS[page][slot][w] \subseteq Loads
                            /\ IsFiniteSet(LOADS[page][slot][w])
         /\ COMMANDS[page][slot] = Commands
         /\ \A c \in Loads \cup Commands : VIEWS[page][c.name] = {b \in ThePage.views : b.does = c.name}
  <1>1. ThePage \in Pages /\ ThePage.name = page
    BY DEF TypeOK, ThePage, PAGES
  <1>2. ThePage \in PageRecord  BY <1>1, ConsoleAssumption
  <1>3. Loads \subseteq LoadRecord /\ Commands \subseteq CommandRecord
    BY <1>2 DEF Loads, Commands, LoadsFor, LoadsOn, Leads, CommandsOn, PageRecord
  <1>4. page \in DOMAIN PAGES /\ slot \in Slots(PAGES[page]) /\ slot \in Slots(ThePage)
    BY DEF TypeOK, ThePage
  <1>5. ASSUME NEW w \in Ways
        PROVE  /\ LOADS[page][slot][w] = {l \in Loads : w \in l.ways}
               /\ LOADS[page][slot][w] \subseteq Loads
               /\ IsFiniteSet(LOADS[page][slot][w])
    <2>1. LOADS[page][slot][w] = {l \in Loads : w \in l.ways}
      BY <1>4 DEF LOADS, Loads, ThePage
    <2>2. Loads \subseteq ThePage.loads  BY DEF Loads, LoadsFor, LoadsOn, Leads
    <2>3. IsFiniteSet(ThePage.loads)  BY <1>1, ConsoleAssumption
    <2>4. QED  BY <2>1, <2>2, <2>3, FS_Subset
  <1>6. COMMANDS[page][slot] = Commands
    BY <1>4 DEF COMMANDS, Commands, ThePage
  <1>7. ASSUME NEW c \in Loads \cup Commands
        PROVE  VIEWS[page][c.name] = {b \in ThePage.views : b.does = c.name}
    <2>1. c.name \in {x.name : x \in PAGES[page].loads \cup PAGES[page].commands}
      BY DEF Loads, Commands, LoadsFor, LoadsOn, Leads, CommandsOn, ThePage
    <2>2. QED  BY <1>4, <2>1 DEF VIEWS, ThePage
  <1>8. QED  BY <1>1, <1>2, <1>3, <1>4, <1>5, <1>6, <1>7

\* What a handler does is its record but for the name.
LEMMA DoesFacts ==
  ASSUME NEW l
  PROVE  /\ l \in LoadRecord => /\ Does(l) \in LoadRecord
                                /\ Does(l).spinner = l.spinner /\ Does(l).guard = l.guard
                                /\ Does(l).sets = l.sets
         /\ l \in CommandRecord => /\ Does(l) \in CommandRecord
                                   /\ Does(l).flag = l.flag /\ Does(l).once = l.once
                                   /\ Does(l).reloads = l.reloads /\ Does(l).patches = l.patches
                                   /\ Does(l).replaces = l.replaces /\ Does(l).leaves = l.leaves
                                   /\ Does(l).awaits = l.awaits
  BY DEF Does, LoadRecord, CommandRecord, Word

\* The request that a load makes.
LoadMade(c, l, k, w, also) ==
  /\ c.h = Does(l) /\ c.loads /\ c.of = k /\ c.lowers = ({l.spinner} \cup also) \ {None}
  /\ c.tied <=> l.guard = "alive" /\ w \in {"mount", "select"}
  /\ c.answer = "sent" /\ ~c.dropped /\ ~c.late /\ ~c.gone
LEMMA LoadRequest ==
  ASSUME NEW l \in LoadRecord, NEW k \in Keys, NEW w \in Ways, NEW also \in SUBSET Word
  PROVE  LET c == Request(l, TRUE, k, 0, w, also)
         IN  c \in CallRecord /\ LoadMade(c, l, k, w, also)
  <1> DEFINE c == Request(l, TRUE, k, 0, w, also)
             tied == l.guard = "alive" /\ w \in {"mount", "select"}
             lowers == ({l.spinner} \cup also) \ {None}
  <1>1. Does(l) \in LoadRecord  BY DoesFacts
  <1>2. l.spinner \in Word  BY DEF LoadRecord
  <1>3. c = [h |-> Does(l), loads |-> TRUE, of |-> k, no |-> 0, lowers |-> lowers, tied |-> tied,
             answer |-> "sent", got |-> {}, dropped |-> FALSE, late |-> FALSE, gone |-> FALSE]
    BY DEF Request
  <1>4. lowers \subseteq Word /\ tied \in BOOLEAN  BY <1>2
  <1> HIDE DEF c, tied, lowers
  <1>5. c \in CallRecord  BY <1>1, <1>3, <1>4 DEF CallRecord
  <1>6. c.lowers = lowers /\ (c.tied <=> tied)  BY <1>3, <1>4
  <1>7. /\ c.h = Does(l) /\ c.loads /\ c.of = k
        /\ c.answer = "sent" /\ ~c.dropped /\ ~c.late /\ ~c.gone
    BY <1>3
  <1>8. LoadMade(c, l, k, w, also)  BY <1>6, <1>7 DEF LoadMade, tied, lowers
  <1>9. QED  BY <1>5, <1>8 DEF c

\* The request that a command makes.
LEMMA CommandRequest ==
  ASSUME NEW x \in CommandRecord, NEW k \in Keys, NEW n \in Nat
  PROVE  LET c == Request(x, FALSE, k, n, "click", {})
         IN  /\ c \in CallRecord
             /\ c.h = Does(x) /\ ~c.loads /\ c.of = k /\ c.no = n /\ c.lowers = {x.flag} \ {None}
             /\ ~c.tied /\ c.answer = "sent" /\ ~c.dropped /\ ~c.late /\ ~c.gone
  <1> DEFINE c == Request(x, FALSE, k, n, "click", {})
  <1>1. Does(x) \in CommandRecord  BY DoesFacts
  <1>2. x.flag \in Word  BY DEF CommandRecord
  <1>3. c = [h |-> Does(x), loads |-> FALSE, of |-> k, no |-> n, lowers |-> {x.flag} \ {None}, tied |-> FALSE,
             answer |-> "sent", got |-> {}, dropped |-> FALSE, late |-> FALSE, gone |-> FALSE]
    BY DEF Request
  <1> HIDE DEF c
  <1>4. c \in CallRecord  BY <1>1, <1>2, <1>3 DEF CallRecord
  <1>5. /\ c.h = Does(x) /\ ~c.loads /\ c.of = k /\ c.no = n /\ c.lowers = {x.flag} \ {None}
        /\ ~c.tied /\ c.answer = "sent" /\ ~c.dropped /\ ~c.late /\ ~c.gone
    BY <1>3
  <1>6. QED  BY <1>4, <1>5 DEF c

-----------------------------------------------------------------------------
(* What becomes of the requests under way                                    *)

\* Two records of a request that differ at most in what happened to it meanwhile.
Like(c, d) ==
  /\ c.h = d.h /\ c.loads = d.loads /\ c.of = d.of /\ c.no = d.no /\ c.lowers = d.lowers
  /\ c.tied = d.tied /\ c.answer = d.answer /\ c.got = d.got

LEMMA MarkLate ==
  ASSUME NEW c \in CallRecord
  PROVE  LET d == [c EXCEPT !.late = TRUE]
         IN  d \in CallRecord /\ Like(d, c) /\ d.late /\ d.dropped = c.dropped /\ d.gone = c.gone
  BY DEF CallRecord, Like
LEMMA MarkDropped ==
  ASSUME NEW c \in CallRecord
  PROVE  LET d == [c EXCEPT !.dropped = TRUE]
         IN  d \in CallRecord /\ Like(d, c) /\ d.dropped /\ d.late = c.late /\ d.gone = c.gone
  BY DEF CallRecord, Like
LEMMA MarkGone ==
  ASSUME NEW c \in CallRecord
  PROVE  LET d == [c EXCEPT !.gone = TRUE]
         IN  d \in CallRecord /\ Like(d, c) /\ d.gone /\ d.dropped = c.dropped /\ d.late = c.late
  BY DEF CallRecord, Like

\* Something newer was answered.
LEMMA OvertakenFacts ==
  ASSUME NEW q \in Seq(CallRecord), NEW n \in Int
  PROVE  LET s == Overtaken(q, n)
         IN  /\ s \in Seq(CallRecord) /\ Len(s) = Len(q)
             /\ \A j \in 1..Len(q) :
                  /\ Like(s[j], q[j]) /\ s[j].dropped = q[j].dropped /\ s[j].gone = q[j].gone
                  /\ q[j].late => s[j].late
                  /\ j < n /\ Told(q[j]) => s[j].late
  <1> DEFINE e(j) == IF j < n /\ Told(q[j]) THEN [q[j] EXCEPT !.late = TRUE] ELSE q[j]
             s == [j \in 1..Len(q) |-> e(j)]
  <1>1. Len(q) \in Nat /\ \A j \in 1..Len(q) : q[j] \in CallRecord
    BY LenProperties, ElementOfSeq
  <1>2. ASSUME NEW j \in 1..Len(q)
        PROVE  /\ e(j) \in CallRecord /\ Like(e(j), q[j])
               /\ e(j).dropped = q[j].dropped /\ e(j).gone = q[j].gone
               /\ q[j].late => e(j).late
               /\ j < n /\ Told(q[j]) => e(j).late
    <2>1. CASE j < n /\ Told(q[j])
      <3>1. e(j) = [q[j] EXCEPT !.late = TRUE]  BY <2>1
      <3>2. QED  BY <1>1, <3>1, MarkLate
    <2>2. CASE ~(j < n /\ Told(q[j]))
      <3>1. e(j) = q[j]  BY <2>2
      <3>2. QED  BY <1>1, <2>2, <3>1 DEF Like
    <2>3. QED  BY <2>1, <2>2
  <1> HIDE DEF e
  <1>3. s \in Seq(CallRecord) /\ Len(s) = Len(q)
    <2>1. s \in [1..Len(q) -> CallRecord]  BY <1>2
    <2>2. s \in Seq(CallRecord)  BY <1>1, <2>1, SeqDef
    <2>3. QED  BY <1>1, <2>1, <2>2, LenProperties
  <1>4. \A j \in 1..Len(q) : s[j] = e(j)  OBVIOUS
  <1>5. s = Overtaken(q, n)  BY DEF Overtaken, e
  <1> HIDE DEF s
  <1>6. QED  BY <1>2, <1>3, <1>4, <1>5

\* A new start of its handler drops a request of which only the latest counts.
Superseded(c, L) == c.loads /\ c.h.guard = "latest" /\ c.h \in {Does(l) : l \in L}

\* Loads start behind the requests that are under way.
LEMMA StartedFacts ==
  ASSUME NEW q \in Seq(CallRecord), NEW L \in SUBSET LoadRecord, IsFiniteSet(L),
         NEW k \in Keys, NEW w \in Ways, NEW also \in SUBSET Word
  PROVE  LET s == Started(q, L, k, w, also)
         IN  /\ s \in Seq(CallRecord) /\ Len(s) >= Len(q)
             /\ \A j \in 1..Len(q) :
                  /\ Like(s[j], q[j]) /\ s[j].late = q[j].late /\ s[j].gone = q[j].gone
                  /\ s[j].dropped <=> q[j].dropped \/ Superseded(q[j], L)
             /\ \A j \in 1..Len(s) : j > Len(q) => \E l \in L : s[j] = Request(l, TRUE, k, 0, w, also)
             /\ \A l \in L : \E j \in 1..Len(s) : j > Len(q) /\ s[j] = Request(l, TRUE, k, 0, w, also)
             /\ \A i, j \in 1..Len(s) : i > Len(q) /\ j > Len(q) /\ s[i] = s[j] => i = j
  <1> DEFINE e(j) == IF q[j].loads /\ q[j].h.guard = "latest" /\ q[j].h \in {Does(l) : l \in L}
                     THEN [q[j] EXCEPT !.dropped = TRUE] ELSE q[j]
             a == [j \in 1..Len(q) |-> e(j)]
             R == {Request(l, TRUE, k, 0, w, also) : l \in L}
             b == SetToSeq(R)
             s == a \o b
  <1>1. Len(q) \in Nat /\ \A j \in 1..Len(q) : q[j] \in CallRecord
    BY LenProperties, ElementOfSeq
  <1>2. ASSUME NEW j \in 1..Len(q)
        PROVE  /\ e(j) \in CallRecord /\ Like(e(j), q[j])
               /\ e(j).late = q[j].late /\ e(j).gone = q[j].gone
               /\ e(j).dropped <=> q[j].dropped \/ Superseded(q[j], L)
    <2>1. CASE Superseded(q[j], L)
      <3>1. e(j) = [q[j] EXCEPT !.dropped = TRUE]  BY <2>1 DEF Superseded
      <3>2. QED  BY <1>1, <2>1, <3>1, MarkDropped
    <2>2. CASE ~Superseded(q[j], L)
      <3>1. e(j) = q[j]  BY <2>2 DEF Superseded
      <3>2. QED  BY <1>1, <2>2, <3>1 DEF Like
    <2>3. QED  BY <2>1, <2>2
  <1>3. s = Started(q, L, k, w, also)  BY DEF Started
  <1>4. R \in SUBSET CallRecord
    <2> SUFFICES ASSUME NEW l \in L PROVE Request(l, TRUE, k, 0, w, also) \in CallRecord
      BY DEF R
    <2>1. QED  BY LoadRequest
  <1>5. IsFiniteSet(R)
    <2> DEFINE f == [l \in L |-> Request(l, TRUE, k, 0, w, also)]
    <2>1. f \in Surjection(L, R)  BY DEF Surjection
    <2>2. QED  BY <2>1, FS_Surjection
  <1> HIDE DEF e, R
  <1>6. a \in Seq(CallRecord) /\ Len(a) = Len(q)
    <2>1. a \in [1..Len(q) -> CallRecord]  BY <1>2
    <2>2. a \in Seq(CallRecord)  BY <1>1, <2>1, SeqDef
    <2>3. QED  BY <1>1, <2>1, <2>2, LenProperties
  <1>7. \A j \in 1..Len(q) : a[j] = e(j)  OBVIOUS
  <1>8. /\ b \in Seq(R) /\ b \in Seq(CallRecord) /\ Len(b) \in Nat
        /\ \A j \in 1..Len(b) : b[j] \in R
        /\ \A x \in R : \E j \in 1..Len(b) : b[j] = x
        /\ \A i, j \in 1..Len(b) : b[i] = b[j] => i = j
    <2>1. b \in Seq(R)  BY <1>5, SetToSeqFacts
    <2>2. b \in Seq(CallRecord)  BY <1>4, <2>1, SeqMonotonic
    <2>3. Len(b) \in Nat /\ \A j \in 1..Len(b) : b[j] \in R  BY <2>1, LenProperties, ElementOfSeq
    <2>4. QED  BY <1>5, <2>1, <2>2, <2>3, SetToSeqFacts
  <1> HIDE DEF a, b
  <1>9. /\ s \in Seq(CallRecord)
        /\ Len(s) = Len(q) + Len(b)
        /\ \A j \in 1..Len(q) + Len(b) : s[j] = IF j <= Len(q) THEN a[j] ELSE b[j - Len(q)]
    <2>1. /\ a \o b \in Seq(CallRecord)
          /\ Len(a \o b) = Len(a) + Len(b)
          /\ \A j \in 1..Len(a) + Len(b) : (a \o b)[j] = IF j <= Len(a) THEN a[j] ELSE b[j - Len(a)]
      <3>1. a \in Seq(CallRecord) /\ b \in Seq(CallRecord)  BY <1>6, <1>8
      <3>2. QED  BY ONLY <3>1, ConcatProperties
    <2>2. QED  BY <1>6, <2>1
  <1> HIDE DEF s
  <1>10. \A j \in 1..Len(q) : j \in 1..Len(q) + Len(b) /\ s[j] = e(j)
    BY <1>1, <1>7, <1>8, <1>9
  <1>11. \A j \in 1..Len(s) : j > Len(q) => j - Len(q) \in 1..Len(b) /\ s[j] = b[j - Len(q)]
    BY <1>1, <1>8, <1>9
  <1>12. \A j \in 1..Len(b) : j + Len(q) \in 1..Len(s) /\ j + Len(q) > Len(q) /\ s[j + Len(q)] = b[j]
    <2> SUFFICES ASSUME NEW j \in 1..Len(b)
                 PROVE  j + Len(q) \in 1..Len(s) /\ j + Len(q) > Len(q) /\ s[j + Len(q)] = b[j]
      OBVIOUS
    <2>1. j + Len(q) \in 1..Len(s) /\ j + Len(q) > Len(q)  BY <1>1, <1>8, <1>9
    <2>2. s[j + Len(q)] = b[(j + Len(q)) - Len(q)]  BY <1>11, <2>1
    <2>3. (j + Len(q)) - Len(q) = j  BY <1>1, <1>8
    <2>4. QED  BY <2>1, <2>2, <2>3
  <1>13. \A j \in 1..Len(s) : j > Len(q) => \E l \in L : s[j] = Request(l, TRUE, k, 0, w, also)
    <2> SUFFICES ASSUME NEW j \in 1..Len(s), j > Len(q)
                 PROVE  \E l \in L : s[j] = Request(l, TRUE, k, 0, w, also)
      OBVIOUS
    <2>1. s[j] \in R  BY <1>8, <1>11
    <2>2. QED  BY <2>1 DEF R
  <1>14. \A l \in L : \E j \in 1..Len(s) : j > Len(q) /\ s[j] = Request(l, TRUE, k, 0, w, also)
    <2> SUFFICES ASSUME NEW l \in L
                 PROVE  \E j \in 1..Len(s) : j > Len(q) /\ s[j] = Request(l, TRUE, k, 0, w, also)
      OBVIOUS
    <2>1. Request(l, TRUE, k, 0, w, also) \in R  BY DEF R
    <2>2. PICK j \in 1..Len(b) : b[j] = Request(l, TRUE, k, 0, w, also)  BY <1>8, <2>1
    <2>3. QED  BY <1>12, <2>2
  <1>15. \A i, j \in 1..Len(s) : i > Len(q) /\ j > Len(q) /\ s[i] = s[j] => i = j
    <2> SUFFICES ASSUME NEW i \in 1..Len(s), NEW j \in 1..Len(s), i > Len(q), j > Len(q), s[i] = s[j]
                 PROVE  i = j
      OBVIOUS
    <2>1. i - Len(q) = j - Len(q)  BY <1>8, <1>11
    <2>2. QED  BY <1>1, <1>8, <1>9, <2>1
  <1>16. Len(s) >= Len(q)  BY <1>1, <1>8, <1>9
  <1>17. \A j \in 1..Len(q) :
           /\ Like(s[j], q[j]) /\ s[j].late = q[j].late /\ s[j].gone = q[j].gone
           /\ s[j].dropped <=> q[j].dropped \/ Superseded(q[j], L)
    BY <1>2, <1>10
  <1>18. QED  BY <1>3, <1>9, <1>13, <1>14, <1>15, <1>16, <1>17

LEMMA LikeTold ==
  ASSUME NEW c, NEW d, Like(c, d)
  PROVE  Told(c) <=> Told(d)
  BY DEF Like, Told

\* An overtaken request may only be excused; everything else stays.
LEMMA OvertakenKeeps ==
  ASSUME NEW q \in Seq(CallRecord), NEW n \in Int
  PROVE  LET s == Overtaken(q, n)
         IN  /\ \A d : CallsKnown(q, d) => CallsKnown(s, d)
             /\ LowerTheirs(q) => LowerTheirs(s)
             /\ \A u : HaveCalls(q, u) => HaveCalls(s, u)
             /\ \A u : AreSingle(q, u) => AreSingle(s, u)
             /\ \A a, d : CallsTell(q, a, d) => CallsTell(s, a, d)
             /\ \A v, a, d : Tells(v, q, a, d) => Tells(v, s, a, d)
             /\ \A k : CallsFollow(q, k) => CallsFollow(s, k)
             /\ \A k : IsFollowed(q, k) => IsFollowed(s, k)
  <1> DEFINE s == Overtaken(q, n)
  <1>1. /\ Len(s) = Len(q) /\ s \in Seq(CallRecord)
        /\ \A j \in 1..Len(q) :
             /\ Like(s[j], q[j]) /\ s[j].dropped = q[j].dropped /\ s[j].gone = q[j].gone
             /\ q[j].late => s[j].late
    BY OvertakenFacts
  <1> HIDE DEF s
  <1>2. \A j \in 1..Len(q) : /\ Told(s[j]) <=> Told(q[j])
                             /\ Active(s[j]) <=> Active(q[j])
                             /\ Fresh(s[j]) => Fresh(q[j])
                             /\ s[j].lowers = q[j].lowers /\ s[j].of = q[j].of
    BY <1>1, LikeTold DEF Active, Fresh, Like
  <1>3. \A j \in 1..Len(q) : Known(q[j]) => Known(s[j])
    BY <1>1 DEF Known, LoadOf, CommandOf, Like
  <1>4. \A d : \A j \in 1..Len(q) : Served(q[j], d) => Served(s[j], d)
    BY <1>1, <1>2 DEF Served, Like
  <1>5. \A a, d : \A j \in 1..Len(q) : Knows(q[j], a, d) <=> Knows(s[j], a, d)
    BY <1>1 DEF Knows, Like
  <1>6. \A k, a, d : \A j \in 1..Len(q) : Brings(q[j], k, a, d) => Brings(s[j], k, a, d)
    BY <1>1, <1>2, <1>5 DEF Brings, Like
  <1>7. \A k : \A j \in 1..Len(q) : Follows(q[j], k) => Follows(s[j], k)
    BY <1>1, <1>2 DEF Follows, Like
  <1>8. \A d : CallsKnown(q, d) => CallsKnown(s, d)  BY <1>1, <1>3, <1>4 DEF CallsKnown
  <1>9. LowerTheirs(q) => LowerTheirs(s)  BY <1>1 DEF LowerTheirs, Like
  <1>10. \A u : HaveCalls(q, u) => HaveCalls(s, u)  BY <1>1, <1>2 DEF HaveCalls
  <1>11. \A u : AreSingle(q, u) => AreSingle(s, u)  BY <1>1, <1>2 DEF AreSingle
  <1>12. \A a, d : CallsTell(q, a, d) => CallsTell(s, a, d)
    BY <1>1, <1>2, <1>5, <1>6 DEF CallsTell
  <1>13. \A v, a, d : Tells(v, q, a, d) => Tells(v, s, a, d)  BY <1>1, <1>6 DEF Tells
  <1>14. \A k : CallsFollow(q, k) => CallsFollow(s, k)
    <2>1. \A j \in 1..Len(q) : s[j].loads = q[j].loads  BY <1>1 DEF Like
    <2>2. QED  BY <1>1, <1>2, <1>7, <2>1 DEF CallsFollow
  <1>15. \A k : IsFollowed(q, k) => IsFollowed(s, k)  BY <1>1, <1>7 DEF IsFollowed
  <1>16. QED  BY <1>8, <1>9, <1>10, <1>11, <1>12, <1>13, <1>14, <1>15 DEF s

\* The place that a request had, and the one it has, when the i-th is taken out.
Was(i, j) == IF j < i THEN j ELSE j + 1
Is(i, m)  == IF m < i THEN m ELSE m - 1
LEMMA RemoveIndex ==
  ASSUME NEW S, NEW q \in Seq(S), NEW i \in 1..Len(q)
  PROVE  LET r == RemoveAt(q, i)
         IN  /\ \A j \in 1..Len(r) : /\ Was(i, j) \in 1..Len(q) /\ Was(i, j) # i
                                     /\ r[j] = q[Was(i, j)] /\ Is(i, Was(i, j)) = j
             /\ \A m \in 1..Len(q) : m # i => /\ Is(i, m) \in 1..Len(r)
                                              /\ r[Is(i, m)] = q[m]
                                              /\ \A j \in 1..Len(r) : m > Was(i, j) => Is(i, m) > j
  <1> DEFINE r == RemoveAt(q, i)
  <1>1. /\ Len(q) \in Nat /\ i \in Int /\ Len(r) = Len(q) - 1
        /\ \A j \in 1..Len(q) - 1 : /\ j < i => r[j] = q[j]
                                    /\ j >= i => r[j] = q[j + 1]
    <2>1. Len(q) \in Nat  BY LenProperties
    <2>2. i \in Int  BY <2>1
    <2>3. QED  BY <2>1, <2>2, RemoveAtFacts
  <1> HIDE DEF r
  <1>2. ASSUME NEW j \in 1..Len(r)
        PROVE  Was(i, j) \in 1..Len(q) /\ Was(i, j) # i /\ r[j] = q[Was(i, j)] /\ Is(i, Was(i, j)) = j
    <2>1. CASE j < i
      <3>1. Was(i, j) = j  BY <2>1 DEF Was
      <3>2. QED  BY <1>1, <2>1, <3>1 DEF Is
    <2>2. CASE ~(j < i)
      <3>1. Was(i, j) = j + 1  BY <2>2 DEF Was
      <3>2. j \in Int /\ j >= i /\ j + 1 \in 1..Len(q) /\ j + 1 # i  BY <1>1, <2>2
      <3>3. r[j] = q[j + 1]  BY <1>1, <3>2
      <3>4. Is(i, j + 1) = j  BY <1>1, <3>2 DEF Is
      <3>5. QED  BY <3>1, <3>2, <3>3, <3>4
    <2>3. QED  BY <2>1, <2>2
  <1>3. ASSUME NEW m \in 1..Len(q), m # i
        PROVE  /\ Is(i, m) \in 1..Len(r) /\ r[Is(i, m)] = q[m]
               /\ \A j \in 1..Len(r) : m > Was(i, j) => Is(i, m) > j
    <2>1. CASE m < i
      <3>1. Is(i, m) = m  BY <2>1 DEF Is
      <3>2. QED  BY <1>1, <2>1, <3>1 DEF Was
    <2>2. CASE m > i
      <3>1. Is(i, m) = m - 1  BY <1>1, <2>2 DEF Is
      <3>2. m - 1 \in 1..Len(r) /\ m - 1 >= i  BY <1>1, <2>2
      <3>3. r[m - 1] = q[(m - 1) + 1] /\ (m - 1) + 1 = m  BY <1>1, <3>2
      <3>4. \A j \in 1..Len(r) : m > Was(i, j) => m - 1 > j  BY <1>1, <2>2 DEF Was
      <3>5. QED  BY <3>1, <3>2, <3>3, <3>4
    <2>3. QED  BY <1>1, <1>3, <2>1, <2>2
  <1>4. QED  BY <1>2, <1>3 DEF r

\* A request that was answered is taken out.
LEMMA RemoveKeeps ==
  ASSUME NEW q \in Seq(CallRecord), NEW i \in 1..Len(q)
  PROVE  LET r == RemoveAt(q, i)
         IN  /\ r \in Seq(CallRecord)
             /\ \A d : CallsKnown(q, d) => CallsKnown(r, d)
             /\ LowerTheirs(q) => LowerTheirs(r)
             /\ \A u, v : HaveCalls(q, u) /\ v \subseteq u /\ (Active(q[i]) => v \cap q[i].lowers = {}) => HaveCalls(r, v)
             /\ \A u, v : AreSingle(q, u) /\ (Active(q[i]) => u \ q[i].lowers \subseteq v)
                            /\ (~Active(q[i]) => u \subseteq v) => AreSingle(r, v)
  <1> DEFINE r == RemoveAt(q, i)
  <1>1. r \in Seq(CallRecord)  BY RemoveAtFacts
  <1>2. /\ \A j \in 1..Len(r) : /\ Was(i, j) \in 1..Len(q) /\ Was(i, j) # i
                                /\ r[j] = q[Was(i, j)] /\ Is(i, Was(i, j)) = j
        /\ \A m \in 1..Len(q) : m # i => Is(i, m) \in 1..Len(r) /\ r[Is(i, m)] = q[m]
    BY RemoveIndex
  <1> HIDE DEF r
  <1>3. \A d : CallsKnown(q, d) => CallsKnown(r, d)  BY <1>2 DEF CallsKnown
  <1>4. LowerTheirs(q) => LowerTheirs(r)  BY <1>2 DEF LowerTheirs
  <1>5. ASSUME NEW u, NEW v, HaveCalls(q, u), v \subseteq u, Active(q[i]) => v \cap q[i].lowers = {}
        PROVE  HaveCalls(r, v)
    <2> SUFFICES ASSUME NEW f \in v PROVE \E j \in 1..Len(r) : Active(r[j]) /\ f \in r[j].lowers
      BY DEF HaveCalls
    <2>1. PICK m \in 1..Len(q) : Active(q[m]) /\ f \in q[m].lowers  BY <1>5 DEF HaveCalls
    <2>2. m # i  BY <1>5, <2>1
    <2>3. QED  BY <1>2, <2>1, <2>2
  <1>6. ASSUME NEW u, NEW v, AreSingle(q, u), Active(q[i]) => u \ q[i].lowers \subseteq v,
               ~Active(q[i]) => u \subseteq v
        PROVE  AreSingle(r, v)
    <2> SUFFICES ASSUME NEW f \in OnceFlags(ThePage, slot), NEW j \in 1..Len(r),
                        Active(r[j]), f \in r[j].lowers
                 PROVE  /\ f \in v
                        /\ \A m \in 1..Len(r) : Active(r[m]) /\ f \in r[m].lowers => j = m
      BY DEF AreSingle
    <2>1. Was(i, j) \in 1..Len(q) /\ Was(i, j) # i /\ Active(q[Was(i, j)]) /\ f \in q[Was(i, j)].lowers
      BY <1>2
    <2>2. /\ f \in u
          /\ \A m \in 1..Len(q) : Active(q[m]) /\ f \in q[m].lowers => Was(i, j) = m
      BY <1>6, <2>1 DEF AreSingle
    <2>3. Active(q[i]) => f \notin q[i].lowers  BY <2>1, <2>2
    <2>4. f \in v  BY <1>6, <2>2, <2>3
    <2>5. ASSUME NEW m \in 1..Len(r), Active(r[m]), f \in r[m].lowers PROVE j = m
      <3>1. Was(i, j) = Was(i, m)  BY <1>2, <2>2, <2>5
      <3>2. QED  BY <1>2, <3>1
    <2>6. QED  BY <2>4, <2>5
  <1>7. QED  BY <1>1, <1>3, <1>4, <1>5, <1>6 DEF r

\* If its answer was shown, what was started before it is late; if not, it brought nothing.
LEMMA RemoveTells ==
  ASSUME NEW q \in Seq(CallRecord), NEW i \in 1..Len(q),
         \/ ~q[i].loads \/ ~Told(q[i]) \/ q[i].dropped
         \/ \A j \in 1..Len(q) : j < i => ~Fresh(q[j])
  PROVE  LET r == RemoveAt(q, i)
         IN  /\ \A a, d : CallsTell(q, a, d) => CallsTell(r, a, d)
             /\ \A k : CallsFollow(q, k) => CallsFollow(r, k)
  <1> DEFINE r == RemoveAt(q, i)
  <1>1. /\ \A j \in 1..Len(r) : Was(i, j) \in 1..Len(q) /\ Was(i, j) # i /\ r[j] = q[Was(i, j)]
        /\ \A m \in 1..Len(q) : m # i => /\ Is(i, m) \in 1..Len(r) /\ r[Is(i, m)] = q[m]
                                         /\ \A j \in 1..Len(r) : m > Was(i, j) => Is(i, m) > j
    BY RemoveIndex
  <1>2. Len(q) \in Nat /\ i \in Int  BY LenProperties
  <1> HIDE DEF r
  <1>3. ASSUME NEW j \in 1..Len(r), Fresh(r[j]), NEW m \in 1..Len(q), m > Was(i, j),
               q[m].loads, Told(q[m]), ~q[m].dropped
        PROVE  Is(i, m) \in 1..Len(r) /\ Is(i, m) > j /\ r[Is(i, m)] = q[m]
    <2>1. m # i
      <3>1. SUFFICES ASSUME m = i PROVE FALSE  OBVIOUS
      <3>2. Was(i, j) < i /\ Was(i, j) \in 1..Len(q) /\ Fresh(q[Was(i, j)])  BY <1>1, <1>2, <1>3, <3>1
      <3>3. QED  BY <1>3, <3>1, <3>2
    <2>2. QED  BY <1>1, <1>3, <2>1
  <1>4. ASSUME NEW a, NEW d, CallsTell(q, a, d) PROVE CallsTell(r, a, d)
    <2> SUFFICES ASSUME NEW j \in 1..Len(r), Fresh(r[j]), NEW n \in a[r[j].of], ~Knows(r[j], n, d)
                 PROVE  \E m \in 1..Len(r) : m > j /\ Brings(r[m], r[j].of, n, d)
      BY DEF CallsTell
    <2>1. PICK m \in 1..Len(q) : m > Was(i, j) /\ Brings(q[m], r[j].of, n, d)
      BY <1>1, <1>4 DEF CallsTell
    <2>2. q[m].loads /\ Told(q[m]) /\ ~q[m].dropped  BY <2>1 DEF Brings
    <2>3. QED  BY <1>3, <2>1, <2>2
  <1>5. ASSUME NEW k, CallsFollow(q, k) PROVE CallsFollow(r, k)
    <2> SUFFICES ASSUME NEW j \in 1..Len(r), r[j].loads, Fresh(r[j]), r[j].of # k
                 PROVE  \E m \in 1..Len(r) : m > j /\ Follows(r[m], k)
      BY DEF CallsFollow
    <2>1. PICK m \in 1..Len(q) : m > Was(i, j) /\ Follows(q[m], k)
      BY <1>1, <1>5 DEF CallsFollow
    <2>2. q[m].loads /\ Told(q[m]) /\ ~q[m].dropped  BY <2>1 DEF Follows
    <2>3. QED  BY <1>3, <2>1, <2>2
  <1>6. QED  BY <1>4, <1>5 DEF r

\* What a request that shows nothing leaves behind it.
LEMMA RemoveIdle ==
  ASSUME NEW q \in Seq(CallRecord), NEW i \in 1..Len(q), ~q[i].loads \/ ~Told(q[i]) \/ q[i].dropped
  PROVE  LET r == RemoveAt(q, i)
         IN  /\ \A v, a, d : Tells(v, q, a, d) => Tells(v, r, a, d)
             /\ \A k : IsFollowed(q, k) => IsFollowed(r, k)
  <1> DEFINE r == RemoveAt(q, i)
  <1>1. \A m \in 1..Len(q) : m # i => Is(i, m) \in 1..Len(r) /\ r[Is(i, m)] = q[m]
    BY RemoveIndex
  <1> HIDE DEF r
  <1>2. \A k, n, d : ~Brings(q[i], k, n, d) /\ ~Follows(q[i], k)  BY DEF Brings, Follows
  <1>3. \A v, a, d : Tells(v, q, a, d) => Tells(v, r, a, d)  BY <1>1, <1>2 DEF Tells
  <1>4. \A k : IsFollowed(q, k) => IsFollowed(r, k)
    BY <1>1, <1>2 DEF IsFollowed
  <1>5. QED  BY <1>3, <1>4 DEF r

\* The j-th request of s is the one that the load l has made, behind those of q.
Added(s, q, j, l, k, w, also) == j > Len(q) /\ s[j] = Request(l, TRUE, k, 0, w, also)

\* Loads of the slot start behind what is under way.
LEMMA StartedSplit ==
  ASSUME TypeOK, NEW q \in Seq(CallRecord), NEW w \in Ways, NEW L \in SUBSET LOADS[page][slot][w],
         NEW k \in Keys, NEW also \in SUBSET (Word \ {None})
  PROVE  LET s == Started(q, L, k, w, also)
         IN  /\ L \subseteq Loads /\ L \in SUBSET LoadRecord /\ \A l \in L : w \in l.ways
             /\ s \in Seq(CallRecord)
             /\ \A j \in 1..Len(q) :
                  /\ j \in 1..Len(s)
                  /\ Like(s[j], q[j]) /\ s[j].late = q[j].late /\ s[j].gone = q[j].gone
                  /\ s[j].dropped <=> q[j].dropped \/ Superseded(q[j], L)
             /\ \A j \in 1..Len(s) : j \in 1..Len(q) \/ \E l \in L : Added(s, q, j, l, k, w, also)
             /\ \A l \in L : \E j \in 1..Len(s) : Added(s, q, j, l, k, w, also)
             /\ \A i \in 1..Len(s), l \in L : Added(s, q, i, l, k, w, also) =>
                  /\ LoadMade(s[i], l, k, w, also)
                  /\ \A j \in 1..Len(q) : i > j
                  /\ \A j \in 1..Len(s) : Added(s, q, j, l, k, w, also) => i = j
  <1> DEFINE s == Started(q, L, k, w, also)
             New(j, l) == Added(s, q, j, l, k, w, also)
  <1>1. /\ L \subseteq Loads /\ L \in SUBSET LoadRecord /\ IsFiniteSet(L)
        /\ \A l \in L : w \in l.ways
    <2>1. LOADS[page][slot][w] = {l \in Loads : w \in l.ways}  BY PageFacts
    <2>2. IsFiniteSet(LOADS[page][slot][w]) /\ Loads \subseteq LoadRecord  BY PageFacts
    <2>3. IsFiniteSet(L)  BY <2>2, FS_Subset
    <2>4. QED  BY <2>1, <2>2, <2>3
  <1>2. also \in SUBSET Word  OBVIOUS
  <1>3. /\ s \in Seq(CallRecord) /\ Len(s) >= Len(q) /\ Len(q) \in Nat /\ Len(s) \in Nat
        /\ \A j \in 1..Len(q) :
             /\ Like(s[j], q[j]) /\ s[j].late = q[j].late /\ s[j].gone = q[j].gone
             /\ s[j].dropped <=> q[j].dropped \/ Superseded(q[j], L)
    <2>1. s \in Seq(CallRecord)  BY <1>1, <1>2, StartedFacts
    <2>2. Len(q) \in Nat /\ Len(s) \in Nat  BY <2>1, LenProperties
    <2>3. QED  BY <1>1, <1>2, <2>1, <2>2, StartedFacts
  <1>4. \A j \in 1..Len(s) : j > Len(q) => \E l \in L : s[j] = Request(l, TRUE, k, 0, w, also)
    BY <1>1, <1>2, StartedFacts
  <1>5. \A l \in L : \E j \in 1..Len(s) : j > Len(q) /\ s[j] = Request(l, TRUE, k, 0, w, also)
    BY <1>1, <1>2, StartedFacts
  <1>6. \A i, j \in 1..Len(s) : i > Len(q) /\ j > Len(q) /\ s[i] = s[j] => i = j
    BY <1>1, <1>2, StartedFacts
  <1>7. \A l \in L : LoadMade(Request(l, TRUE, k, 0, w, also), l, k, w, also)
    BY <1>1, <1>2, LoadRequest
  <1> HIDE DEF s
  <1>8. \A j \in 1..Len(q) : j \in 1..Len(s)  BY <1>3
  <1>9. \A j \in 1..Len(s) : j \in 1..Len(q) \/ \E l \in L : New(j, l)
    <2>1. \A j \in 1..Len(s) : j \in 1..Len(q) \/ j > Len(q)  BY <1>3
    <2>2. QED  BY <1>4, <2>1 DEF Added
  <1>10. \A l \in L : \E j \in 1..Len(s) : New(j, l)  BY <1>5 DEF Added
  <1>11. ASSUME NEW i \in 1..Len(s), NEW l \in L, New(i, l)
         PROVE  /\ LoadMade(s[i], l, k, w, also)
                /\ \A j \in 1..Len(q) : i > j
                /\ \A j \in 1..Len(s) : New(j, l) => i = j
    <2>1. i > Len(q) /\ s[i] = Request(l, TRUE, k, 0, w, also)  BY <1>11 DEF Added
    <2>2. \A j \in 1..Len(q) : i > j  BY <1>3, <2>1
    <2>3. QED  BY <1>6, <1>7, <2>1, <2>2 DEF Added
  <1>12. QED  BY <1>1, <1>3, <1>8, <1>9, <1>10, <1>11 DEF s

\* The loads that are started lower the flags of the command that awaits them: those
\* that mean one submission are up, by it alone, and one load lowers them.
TakesOver(q, L, also, v) ==
  \A f \in also \cap OnceFlags(ThePage, slot) :
    /\ f \in v
    /\ \A i \in 1..Len(q) : ~(Active(q[i]) /\ f \in q[i].lowers)
    /\ \A l, m \in L : l = m

\* What is known of the requests, and of their flags, stays.
LEMMA StartedKeeps ==
  ASSUME TypeOK, NEW q \in Seq(CallRecord), NEW w \in Ways, NEW L \in SUBSET LOADS[page][slot][w],
         NEW k \in Keys, ~Keyed => k = First, NEW also \in SUBSET (Word \ {None})
  PROVE  LET s == Started(q, L, k, w, also)
         IN  /\ s \in Seq(CallRecord)
             /\ \A d : CallsKnown(q, d) => CallsKnown(s, d)
             /\ (\A j \in 1..Len(q) : q[j].loads) => \A j \in 1..Len(s) : s[j].loads
             /\ also = {} /\ LowerTheirs(q) => LowerTheirs(s)
             /\ w = "call" /\ (\A l \in L : l.guard # "latest") /\ LowerTheirs(q) => LowerTheirs(s)
             /\ \A u, d : HaveCalls(q, u) /\ LowerTheirs(q) /\ CallsKnown(q, d) =>
                            /\ HaveCalls(s, u \cup Spinning(L, w))
                            /\ L # {} => HaveCalls(s, u \cup Spinning(L, w) \cup also)
             /\ \A u, v : AreSingle(q, u) /\ u \subseteq v /\ OnceIsGuarded(ThePage, slot)
                            /\ TakesOver(q, L, also, v) => AreSingle(s, v)
  <1> DEFINE s == Started(q, L, k, w, also)
             New(j, l) == Added(s, q, j, l, k, w, also)
  <1>1. L \subseteq Loads /\ L \in SUBSET LoadRecord /\ \A l \in L : w \in l.ways
    BY StartedSplit
  <1>2. /\ s \in Seq(CallRecord)
        /\ \A j \in 1..Len(q) :
             /\ j \in 1..Len(s)
             /\ Like(s[j], q[j]) /\ s[j].late = q[j].late /\ s[j].gone = q[j].gone
             /\ s[j].dropped <=> q[j].dropped \/ Superseded(q[j], L)
    BY StartedSplit
  <1>3. /\ \A j \in 1..Len(s) : j \in 1..Len(q) \/ \E l \in L : New(j, l)
        /\ \A l \in L : \E j \in 1..Len(s) : New(j, l)
    BY StartedSplit
  <1>4. \A i \in 1..Len(s), l \in L : New(i, l) =>
          /\ LoadMade(s[i], l, k, w, also)
          /\ \A j \in 1..Len(q) : i > j
          /\ \A j \in 1..Len(s) : New(j, l) => i = j
    BY StartedSplit
  <1> HIDE DEF s, New
  <1>7. \A j \in 1..Len(s), l \in L : New(j, l) =>
          /\ s[j].h = Does(l) /\ s[j].loads /\ s[j].of = k /\ s[j].lowers = ({l.spinner} \cup also) \ {None}
          /\ s[j].tied <=> l.guard = "alive" /\ w \in {"mount", "select"}
          /\ s[j].answer = "sent" /\ ~s[j].dropped /\ ~s[j].late /\ ~s[j].gone
    BY <1>4 DEF LoadMade
  <1>8. /\ \A j \in 1..Len(s) : j \in 1..Len(q) \/ \E l \in L : New(j, l)
        /\ \A l \in L : \E j \in 1..Len(s) : New(j, l)
        /\ \A j \in 1..Len(q) : j \in 1..Len(s)
        /\ \A j \in 1..Len(q), i \in 1..Len(s), l \in L : New(i, l) => i > j
    BY <1>2, <1>3, <1>4
  <1>9. ASSUME NEW d, CallsKnown(q, d) PROVE CallsKnown(s, d)
    <2> SUFFICES ASSUME NEW j \in 1..Len(s) PROVE Known(s[j]) /\ Served(s[j], d)
      BY DEF CallsKnown
    <2>1. CASE j \in 1..Len(q)
      <3>1. Known(q[j]) /\ Served(q[j], d) /\ Like(s[j], q[j]) /\ s[j].gone = q[j].gone
        BY <1>2, <1>9, <2>1 DEF CallsKnown
      <3>2. Told(s[j]) <=> Told(q[j])  BY <3>1, LikeTold
      <3>3. Served(s[j], d)  BY <3>1, <3>2 DEF Served, Like
      <3>4. ~q[j].loads => s[j].dropped = q[j].dropped
        <4>1. s[j] \in CallRecord /\ q[j] \in CallRecord  BY <1>2, <2>1, <1>8, ElementOfSeq
        <4>2. s[j].dropped \in BOOLEAN /\ q[j].dropped \in BOOLEAN  BY <4>1 DEF CallRecord
        <4>3. QED  BY <1>2, <2>1, <4>2 DEF Superseded
      <3>5. Known(s[j])  BY <3>1, <3>4 DEF Known, LoadOf, CommandOf, Like
      <3>6. QED  BY <3>3, <3>5
    <2>2. ASSUME NEW l \in L, New(j, l) PROVE Known(s[j]) /\ Served(s[j], d)
      <3>1. LoadOf(s[j], l)  BY <1>1, <1>7, <2>2 DEF LoadOf
      <3>2. QED  BY <1>1, <1>7, <2>2, <3>1 DEF Known, Served
    <2>3. QED  BY <1>8, <2>1, <2>2
  <1>10. ASSUME \A j \in 1..Len(q) : q[j].loads PROVE \A j \in 1..Len(s) : s[j].loads
    BY <1>2, <1>7, <1>8, <1>10 DEF Like
  <1>11. ASSUME LowerTheirs(q), also = {} \/ (w = "call" /\ \A l \in L : l.guard # "latest")
         PROVE  LowerTheirs(s)
    <2> SUFFICES ASSUME NEW j \in 1..Len(s), s[j].loads, s[j].tied \/ s[j].h.guard = "latest"
                 PROVE  s[j].lowers \subseteq {s[j].h.spinner}
      BY DEF LowerTheirs
    <2>1. CASE j \in 1..Len(q)
      BY <1>2, <1>11, <2>1 DEF LowerTheirs, Like
    <2>2. ASSUME NEW l \in L, New(j, l) PROVE s[j].lowers \subseteq {s[j].h.spinner}
      <3>1. s[j].h.guard = l.guard /\ s[j].h.spinner = l.spinner  BY <1>1, <1>7, <2>2, DoesFacts
      <3>2. also = {}  BY <1>7, <1>11, <2>2, <3>1
      <3>3. QED  BY <1>7, <2>2, <3>1, <3>2
    <2>3. QED  BY <1>8, <2>1, <2>2
  <1>12. ASSUME NEW u, NEW d, HaveCalls(q, u), LowerTheirs(q), CallsKnown(q, d)
         PROVE  /\ HaveCalls(s, u \cup Spinning(L, w))
                /\ L # {} => HaveCalls(s, u \cup Spinning(L, w) \cup also)
    <2>1. ASSUME NEW f \in u PROVE \E i \in 1..Len(s) : Active(s[i]) /\ f \in s[i].lowers
      <3>1. PICK i \in 1..Len(q) : Active(q[i]) /\ f \in q[i].lowers  BY <1>12 DEF HaveCalls
      <3>2. CASE Superseded(q[i], L)
        <4>1. PICK l \in L : q[i].h = Does(l)  BY <3>2 DEF Superseded
        <4>2. f = l.spinner  BY <1>1, <1>12, <3>1, <3>2, <4>1, DoesFacts DEF LowerTheirs, Superseded
        <4>3. f # None  BY <1>12, <3>1 DEF CallsKnown, Known
        <4>4. PICK j \in 1..Len(s) : New(j, l)  BY <1>8
        <4>5. QED  BY <1>7, <4>2, <4>3, <4>4 DEF Active
      <3>3. CASE ~Superseded(q[i], L)
        <4>1. Active(s[i]) /\ f \in s[i].lowers /\ i \in 1..Len(s)
          BY <1>2, <1>8, <3>1, <3>3 DEF Active, Like
        <4>2. QED  BY <4>1
      <3>4. QED  BY <3>2, <3>3
    <2>2. ASSUME NEW f \in Spinning(L, w) PROVE \E i \in 1..Len(s) : Active(s[i]) /\ f \in s[i].lowers
      <3>1. PICK l \in L : f = l.spinner /\ f # None  BY DEF Spinning, Spins
      <3>2. PICK j \in 1..Len(s) : New(j, l)  BY <1>8
      <3>3. QED  BY <1>7, <3>1, <3>2 DEF Active
    <2>3. ASSUME L # {}, NEW f \in also PROVE \E i \in 1..Len(s) : Active(s[i]) /\ f \in s[i].lowers
      <3>1. PICK l \in L : TRUE  BY <2>3
      <3>2. PICK j \in 1..Len(s) : New(j, l)  BY <1>8
      <3>3. QED  BY <1>7, <3>2 DEF Active
    <2>4. QED  BY <2>1, <2>2, <2>3 DEF HaveCalls
  <1>13. ASSUME NEW u, NEW v, AreSingle(q, u), u \subseteq v, OnceIsGuarded(ThePage, slot),
                TakesOver(q, L, also, v)
         PROVE  AreSingle(s, v)
    <2> SUFFICES ASSUME NEW f \in OnceFlags(ThePage, slot), NEW i \in 1..Len(s), Active(s[i]), f \in s[i].lowers
                 PROVE  /\ f \in v
                        /\ \A j \in 1..Len(s) : Active(s[j]) /\ f \in s[j].lowers => i = j
      BY DEF AreSingle
    <2>1. \A j \in 1..Len(q) : Active(s[j]) /\ f \in s[j].lowers => Active(q[j]) /\ f \in q[j].lowers
      BY <1>2 DEF Active, Like
    <2>2. \A j \in 1..Len(s), l \in L : New(j, l) /\ f \in s[j].lowers => f \in also
      BY <1>1, <1>7, <1>13 DEF OnceIsGuarded, Loads
    <2>3. CASE i \in 1..Len(q)
      <3>1. f \in v /\ f \notin also  BY <1>13, <2>1, <2>3 DEF AreSingle, TakesOver
      <3>2. ASSUME NEW j \in 1..Len(s), Active(s[j]), f \in s[j].lowers PROVE i = j
        <4>1. j \in 1..Len(q)  BY <1>8, <2>2, <3>1, <3>2
        <4>2. QED  BY <1>13, <2>1, <2>3, <3>2, <4>1 DEF AreSingle
      <3>3. QED  BY <3>1, <3>2
    <2>4. ASSUME NEW l \in L, New(i, l)
          PROVE  f \in v /\ \A j \in 1..Len(s) : Active(s[j]) /\ f \in s[j].lowers => i = j
      <3>1. f \in also /\ f \in v  BY <1>13, <2>2, <2>4 DEF TakesOver
      <3>2. ASSUME NEW j \in 1..Len(s), Active(s[j]), f \in s[j].lowers PROVE i = j
        <4>1. j \notin 1..Len(q)  BY <1>13, <2>1, <3>1, <3>2 DEF TakesOver
        <4>2. PICK m \in L : New(j, m)  BY <1>8, <4>1
        <4>3. l = m  BY <1>13, <3>1 DEF TakesOver
        <4>4. QED  BY <1>4, <2>4, <4>2, <4>3
      <3>3. QED  BY <3>1, <3>2
    <2>5. QED  BY <1>8, <2>3, <2>4
  <1>14. \A d : CallsKnown(q, d) => CallsKnown(s, d)  BY <1>9
  <1>15. \A u, d : HaveCalls(q, u) /\ LowerTheirs(q) /\ CallsKnown(q, d) =>
                    /\ HaveCalls(s, u \cup Spinning(L, w))
                    /\ L # {} => HaveCalls(s, u \cup Spinning(L, w) \cup also)
    BY <1>12
  <1>16. \A u, v : AreSingle(q, u) /\ u \subseteq v /\ OnceIsGuarded(ThePage, slot)
                     /\ TakesOver(q, L, also, v) => AreSingle(s, v)
    BY <1>13
  <1>17. /\ also = {} /\ LowerTheirs(q) => LowerTheirs(s)
         /\ w = "call" /\ (\A l \in L : l.guard # "latest") /\ LowerTheirs(q) => LowerTheirs(s)
    BY <1>11
  <1>18. s \in Seq(CallRecord)  BY <1>2
  <1>19. QED  BY ONLY <1>10, <1>14, <1>15, <1>16, <1>17, <1>18 DEF s

\* Only what is said of selection k may differ.
OnlyAt(a, b, k) == \A o \in Keys : o # k => a[o] = b[o]

\* They tell what the server knows, and nothing is lost of what brings an effect.
LEMMA StartedTells ==
  ASSUME TypeOK, NEW q \in Seq(CallRecord), NEW w \in Ways, NEW L \in SUBSET LOADS[page][slot][w],
         NEW k \in Keys, NEW also \in SUBSET (Word \ {None})
  PROVE  LET s == Started(q, L, k, w, also)
         IN  /\ \A a, d : CallsTell(q, a, d) /\ a[k] \subseteq d[k] => CallsTell(s, a, d)
             /\ \A v, a, d : Tells(v, q, a, d) => Tells(v, s, a, d)
             /\ (\E l \in L : slot \in l.sets) /\ w = "call" /\ (\A l \in L : l.guard # "latest") =>
                  \A a, b, d : CallsTell(q, a, d) /\ b[k] \subseteq d[k] /\ OnlyAt(a, b, k) =>
                    /\ CallsTell(s, b, d)
                    /\ \A v : v.of \in Keys /\ Tells(v, q, a, d) => Tells(v, s, b, d)
  <1> DEFINE s == Started(q, L, k, w, also)
             New(j, l) == Added(s, q, j, l, k, w, also)
  <1>1. L \in SUBSET LoadRecord
    BY StartedSplit
  <1>2. /\ s \in Seq(CallRecord)
        /\ \A j \in 1..Len(q) :
             /\ j \in 1..Len(s)
             /\ Like(s[j], q[j]) /\ s[j].late = q[j].late /\ s[j].gone = q[j].gone
             /\ s[j].dropped <=> q[j].dropped \/ Superseded(q[j], L)
    BY StartedSplit
  <1>3. /\ \A j \in 1..Len(s) : j \in 1..Len(q) \/ \E l \in L : New(j, l)
        /\ \A l \in L : \E j \in 1..Len(s) : New(j, l)
    BY StartedSplit
  <1>4. \A i \in 1..Len(s), l \in L : New(i, l) =>
          LoadMade(s[i], l, k, w, also) /\ \A j \in 1..Len(q) : i > j
    BY StartedSplit
  <1> HIDE DEF s, New
  <1>5. \A j \in 1..Len(q) : /\ Fresh(s[j]) => Fresh(q[j])
                             /\ s[j].of = q[j].of
                             /\ \A n, d : Knows(q[j], n, d) => Knows(s[j], n, d)
                             /\ \A o, n, d : Brings(q[j], o, n, d) => Brings(s[j], o, n, d)
    <2> SUFFICES ASSUME NEW j \in 1..Len(q)
                 PROVE  /\ Fresh(s[j]) => Fresh(q[j])
                        /\ s[j].of = q[j].of
                        /\ \A n, d : Knows(q[j], n, d) => Knows(s[j], n, d)
                        /\ \A o, n, d : Brings(q[j], o, n, d) => Brings(s[j], o, n, d)
      OBVIOUS
    <2>1. /\ Like(s[j], q[j]) /\ s[j].late = q[j].late /\ s[j].gone = q[j].gone
          /\ s[j].dropped <=> q[j].dropped \/ Superseded(q[j], L)
      BY <1>2
    <2>2. Told(s[j]) <=> Told(q[j])  BY <2>1, LikeTold
    <2>3. \A n, d : Knows(q[j], n, d) => Knows(s[j], n, d)  BY <2>1 DEF Knows, Like
    <2>4. Fresh(s[j]) => Fresh(q[j])  BY <2>1, <2>2 DEF Fresh, Active
    <2>5. \A o, n, d : Brings(q[j], o, n, d) => Brings(s[j], o, n, d)
      BY <2>1, <2>2, <2>3 DEF Brings, Like, Superseded
    <2>6. QED  BY <2>1, <2>3, <2>4, <2>5 DEF Like
  <1>6. \A j \in 1..Len(s), l \in L : \A n, d : New(j, l) /\ n \in d[k] => s[j].of = k /\ Knows(s[j], n, d)
    BY <1>4 DEF LoadMade, Knows
  <1>7. \A j \in 1..Len(s), l \in L : New(j, l) => s[j].of = k  BY <1>4 DEF LoadMade
  <1>8. ASSUME NEW a, NEW d, CallsTell(q, a, d), a[k] \subseteq d[k] PROVE CallsTell(s, a, d)
    <2> SUFFICES ASSUME NEW j \in 1..Len(s), Fresh(s[j]), NEW n \in a[s[j].of]
                 PROVE  Knows(s[j], n, d) \/ \E i \in 1..Len(s) : i > j /\ Brings(s[i], s[j].of, n, d)
      BY DEF CallsTell
    <2>1. CASE j \in 1..Len(q)
      <3>1. Fresh(q[j]) /\ n \in a[q[j].of]  BY <1>5, <2>1
      <3>2. Knows(q[j], n, d) \/ \E i \in 1..Len(q) : i > j /\ Brings(q[i], q[j].of, n, d)
        BY <1>8, <2>1, <3>1 DEF CallsTell
      <3>3. QED  BY <1>2, <1>5, <2>1, <3>2
    <2>2. ASSUME NEW l \in L, New(j, l) PROVE Knows(s[j], n, d)
      BY <1>6, <1>7, <1>8, <2>2
    <2>3. QED  BY <1>3, <2>1, <2>2
  <1>9. \A v, a, d : Tells(v, q, a, d) => Tells(v, s, a, d)
    BY <1>2, <1>5 DEF Tells
  <1>10. ASSUME \E l \in L : slot \in l.sets, w = "call", \A l \in L : l.guard # "latest",
                NEW a, NEW b, NEW d, CallsTell(q, a, d), b[k] \subseteq d[k], OnlyAt(a, b, k)
         PROVE  /\ CallsTell(s, b, d)
                /\ \A v : v.of \in Keys /\ Tells(v, q, a, d) => Tells(v, s, b, d)
    <2>1. PICK l \in L, m \in 1..Len(s) : slot \in l.sets /\ New(m, l)  BY <1>3, <1>10
    <2>2. \A n \in d[k] : Brings(s[m], k, n, d)
      BY <1>1, <1>4, <1>6, <1>10, <2>1, DoesFacts DEF LoadMade, Brings, Told
    <2>3. \A j \in 1..Len(q) : m > j  BY <1>4, <2>1
    <2>4. ASSUME NEW j \in 1..Len(s), Fresh(s[j]), NEW n \in b[s[j].of]
          PROVE  Knows(s[j], n, d) \/ \E i \in 1..Len(s) : i > j /\ Brings(s[i], s[j].of, n, d)
      <3>1. CASE j \in 1..Len(q) /\ s[j].of = k
        BY <1>10, <2>2, <2>3, <2>4, <3>1
      <3>2. CASE j \in 1..Len(q) /\ s[j].of # k
        <4>1. q[j] \in CallRecord  BY <3>2, ElementOfSeq
        <4>2. q[j].of \in Keys  BY <4>1 DEF CallRecord
        <4>3. Fresh(q[j]) /\ n \in a[q[j].of]  BY <1>5, <1>10, <2>4, <3>2, <4>2 DEF OnlyAt
        <4>4. Knows(q[j], n, d) \/ \E i \in 1..Len(q) : i > j /\ Brings(q[i], q[j].of, n, d)
          BY <1>10, <3>2, <4>3 DEF CallsTell
        <4>5. QED  BY <1>2, <1>5, <3>2, <4>4
      <3>3. ASSUME NEW x \in L, New(j, x) PROVE Knows(s[j], n, d)
        BY <1>6, <1>7, <1>10, <2>4, <3>3
      <3>4. QED  BY <1>3, <3>1, <3>2, <3>3
    <2>5. CallsTell(s, b, d)  BY <2>4 DEF CallsTell
    <2>6. ASSUME NEW v, v.of \in Keys, Tells(v, q, a, d) PROVE Tells(v, s, b, d)
      <3> SUFFICES ASSUME NEW n \in b[v.of], n \notin v.data
                   PROVE  \E i \in 1..Len(s) : Brings(s[i], v.of, n, d)
        BY DEF Tells
      <3>1. CASE v.of = k  BY <1>10, <2>2, <3>1
      <3>2. CASE v.of # k
        <4>1. n \in a[v.of]  BY <1>10, <2>6, <3>2 DEF OnlyAt
        <4>2. \E i \in 1..Len(q) : Brings(q[i], v.of, n, d)  BY <2>6, <4>1 DEF Tells
        <4>3. QED  BY <1>2, <1>5, <4>2
      <3>3. QED  BY <3>1, <3>2
    <2>7. QED  BY <2>5, <2>6
  <1>11. \A a, d : CallsTell(q, a, d) /\ a[k] \subseteq d[k] => CallsTell(s, a, d)  BY <1>8
  <1>12. (\E l \in L : slot \in l.sets) /\ w = "call" /\ (\A l \in L : l.guard # "latest") =>
           \A a, b, d : CallsTell(q, a, d) /\ b[k] \subseteq d[k] /\ OnlyAt(a, b, k) =>
             /\ CallsTell(s, b, d)
             /\ \A v : v.of \in Keys /\ Tells(v, q, a, d) => Tells(v, s, b, d)
    BY <1>10
  <1>13. QED  BY ONLY <1>9, <1>11, <1>12 DEF s

\* A load of the selection is followed by those of the selection, and one is behind
\* what it follows.
LEMMA StartedFollows ==
  ASSUME TypeOK, NEW q \in Seq(CallRecord), NEW w \in Ways, NEW L \in SUBSET LOADS[page][slot][w],
         NEW k \in Keys, NEW also \in SUBSET (Word \ {None}), \A l \in L : slot \in l.sets
  PROVE  LET s == Started(q, L, k, w, also)
         IN  /\ \A o : CallsFollow(q, o) /\ (o = k \/ L = {}) => CallsFollow(s, o)
             /\ \A o : IsFollowed(q, o) /\ (o = k \/ L = {}) => IsFollowed(s, o)
             /\ \A l \in L : CallsFollow(s, k) /\ IsFollowed(s, k)
  <1> DEFINE s == Started(q, L, k, w, also)
             New(j, l) == Added(s, q, j, l, k, w, also)
  <1>1. \A j \in 1..Len(q) :
          /\ j \in 1..Len(s)
          /\ Like(s[j], q[j]) /\ s[j].late = q[j].late /\ s[j].gone = q[j].gone
          /\ s[j].dropped <=> q[j].dropped \/ Superseded(q[j], L)
    BY StartedSplit
  <1>2. /\ \A j \in 1..Len(s) : j \in 1..Len(q) \/ \E l \in L : New(j, l)
        /\ \A l \in L : \E j \in 1..Len(s) : New(j, l)
    BY StartedSplit
  <1>3. \A i \in 1..Len(s), l \in L : New(i, l) =>
          LoadMade(s[i], l, k, w, also) /\ \A j \in 1..Len(q) : i > j
    BY StartedSplit
  <1> HIDE DEF s, New
  <1>4. \A i \in 1..Len(s), l \in L : New(i, l) => Follows(s[i], k) /\ s[i].of = k
    <2>1. L \subseteq LoadRecord  BY PageFacts
    <2>2. QED  BY <1>3, <2>1, DoesFacts DEF LoadMade, Follows, Told
  <1>5. \A j \in 1..Len(q) : /\ Fresh(s[j]) => Fresh(q[j])
                             /\ s[j].of = q[j].of /\ s[j].loads = q[j].loads
    BY <1>1, LikeTold DEF Fresh, Active, Like
  <1>6. \A j \in 1..Len(q) : \A o : Follows(q[j], o) => Follows(s[j], o) \/ L # {}
    BY <1>1, LikeTold DEF Follows, Like, Superseded
  <1>7. ASSUME L # {} PROVE CallsFollow(s, k) /\ IsFollowed(s, k)
    <2>1. PICK l \in L, m \in 1..Len(s) : New(m, l)  BY <1>2, <1>7
    <2>2. Follows(s[m], k) /\ \A j \in 1..Len(q) : m > j  BY <1>3, <1>4, <2>1
    <2>3. \A j \in 1..Len(s) : s[j].of # k => j \in 1..Len(q)  BY <1>2, <1>4
    <2>4. QED  BY <2>2, <2>3 DEF CallsFollow, IsFollowed
  <1>8. ASSUME NEW o, L = {}, CallsFollow(q, o) PROVE CallsFollow(s, o)
    <2>1. \A j \in 1..Len(s) : j \in 1..Len(q)  BY <1>2, <1>8
    <2>2. \A j \in 1..Len(q) : Follows(q[j], o) => Follows(s[j], o)  BY <1>6, <1>8
    <2>3. QED  BY <1>1, <1>5, <1>8, <2>1, <2>2 DEF CallsFollow
  <1>9. ASSUME NEW o, L = {}, IsFollowed(q, o) PROVE IsFollowed(s, o)
    BY <1>1, <1>6, <1>9 DEF IsFollowed
  <1>10. \A o : CallsFollow(q, o) /\ (o = k \/ L = {}) => CallsFollow(s, o)  BY <1>7, <1>8
  <1>11. \A o : IsFollowed(q, o) /\ (o = k \/ L = {}) => IsFollowed(s, o)
    BY <1>7, <1>9
  <1>12. \A l \in L : CallsFollow(s, k) /\ IsFollowed(s, k)  BY <1>7
  <1>13. QED  BY ONLY <1>10, <1>11, <1>12 DEF s

\* Where nothing starts, what was followed is.
LEMMA StartedNothing ==
  ASSUME TypeOK, NEW q \in Seq(CallRecord), NEW w \in Ways, NEW L \in SUBSET LOADS[page][slot][w],
         NEW k \in Keys, NEW also \in SUBSET (Word \ {None}), L = {}
  PROVE  /\ \A o : CallsFollow(q, o) => CallsFollow(Started(q, L, k, w, also), o)
         /\ \A o : IsFollowed(q, o) => IsFollowed(Started(q, L, k, w, also), o)
  BY StartedFollows
-----------------------------------------------------------------------------
(* Steps                                                                     *)

\* The slot that is looked at stays, and with it what is said of its requests.
LEMMA SameSlot ==
  ASSUME page' = page, slot' = slot
  PROVE  /\ Keyed' <=> Keyed
         /\ Consistent' <=>
              /\ CallsKnown(calls', data')
              /\ \A k \in Keys : answered'[k] \subseteq data'[k]
              /\ ~Keyed => sel' = First /\ (shown' # Nothing => shown'.of = First)
              /\ ~here' => shown' = Nothing /\ \A i \in 1..Len(calls') : calls'[i].gone
              /\ issued' = 0 => \A i \in 1..Len(calls') : calls'[i].loads
         /\ FlagsInv' <=> LowerTheirs(calls') /\ HaveCalls(calls', up') /\ AreSingle(calls', up')
         /\ OwnInv' <=>
              /\ CallsTell(calls', answered', data')
              /\ shown' # Nothing /\ ~excused' => Tells(shown', calls', answered', data')
         /\ SelInv' <=>
              (~Stays' => /\ CallsFollow(calls', sel')
                          /\ shown' # Nothing /\ ~excused' /\ shown'.of # sel' =>
                               IsFollowed(calls', sel'))
  <1>1. (Keyed' <=> Keyed)  BY DEF Keyed
  <1>2. Consistent' <=>
              /\ CallsKnown(calls', data')
              /\ \A k \in Keys : answered'[k] \subseteq data'[k]
              /\ ~Keyed => sel' = First /\ (shown' # Nothing => shown'.of = First)
              /\ ~here' => shown' = Nothing /\ \A i \in 1..Len(calls') : calls'[i].gone
              /\ issued' = 0 => \A i \in 1..Len(calls') : calls'[i].loads
    BY DEF Consistent, CallsKnown, Known, Served, LoadOf, CommandOf, Told, Keyed, Loads, Commands, ThePage
  <1>3. FlagsInv' <=> LowerTheirs(calls') /\ HaveCalls(calls', up') /\ AreSingle(calls', up')
    BY DEF FlagsInv, LowerTheirs, HaveCalls, AreSingle, Active, ThePage
  <1>4. OwnInv' <=>
              /\ CallsTell(calls', answered', data')
              /\ shown' # Nothing /\ ~excused' => Tells(shown', calls', answered', data')
    BY DEF OwnInv, CallsTell, Tells, Fresh, Told, Active, Knows, Brings
  <1>5. SelInv' <=>
              (~Stays' => /\ CallsFollow(calls', sel')
                          /\ shown' # Nothing /\ ~excused' /\ shown'.of # sel' =>
                               IsFollowed(calls', sel'))
    BY DEF SelInv, CallsFollow, Fresh, Told, Active, Follows, IsFollowed
  <1>6. QED  BY <1>1, <1>2, <1>3, <1>4, <1>5

\* A slot that stays goes on to do so: the number of commands only grows.
LEMMA StaysOn ==
  ASSUME TypeOK, page' = page, slot' = slot, issued' \in {issued, issued + 1}
  PROVE  Stays => Stays'
  BY DEF Stays, At, TypeOK

\* The rules of the slot that is looked at, and what a step owes.
Guarded   == FlagsAreLowered(ThePage, slot) /\ OnceIsGuarded(ThePage, slot)
Reporting == FlagsAreLowered(ThePage, slot) /\ CommandsAreShown(ThePage, slot)
Following == SelectionIsLoaded(ThePage, slot)
Keeps ==
  /\ TypeOK' /\ Consistent'
  /\ Guarded /\ FlagsInv => FlagsInv'
  /\ Reporting /\ OwnInv => OwnInv'
  /\ Following /\ SelInv => SelInv'

\* A page with one selection shows it.
LEMMA UnkeyedFollows ==
  ASSUME ~Keyed, NEW q, NEW d, CallsKnown(q, d)
  PROVE  CallsFollow(q, First)
  BY DEF CallsKnown, Known, CallsFollow

\* On a page that follows its selection, what is asked for is asked for at once.
LEMMA LoadsFollow ==
  ASSUME TypeOK, Following, Keyed, ~Stays
  PROVE  /\ slot \in ThePage.keyed /\ <<ThePage.name, slot>> \notin Staying
         /\ Loads = LoadsOn(ThePage, slot) /\ \A l \in Loads : slot \in l.sets
  <1>1. ThePage.name = page  BY PageFacts
  <1>2. <<ThePage.name, slot>> \notin Staying  BY <1>1 DEF Stays, At, Staying
  <1>3. slot \in ThePage.keyed  BY DEF Keyed, ThePage
  <1>4. Leads(ThePage, slot) = {}  BY <1>2, <1>3 DEF Following, SelectionIsLoaded
  <1>5. Loads = LoadsOn(ThePage, slot)  BY <1>4 DEF Loads, LoadsFor
  <1>6. QED  BY <1>2, <1>3, <1>5 DEF LoadsOn

\* What is gone, or was dropped, owes nothing.
LEMMA IdleFacts ==
  ASSUME NEW q, \A i \in 1..Len(q) : ~Active(q[i])
  PROVE  /\ \A u : AreSingle(q, u)
         /\ \A a, d : CallsTell(q, a, d)
         /\ \A k : CallsFollow(q, k)
  BY DEF AreSingle, CallsTell, CallsFollow, Fresh

\* The commands of a page that is left.
LEMMA GoneFacts ==
  ASSUME NEW q \in Seq(CallRecord)
  PROVE  LET s == SetToSeq({[q[i] EXCEPT !.gone = TRUE] : i \in {j \in 1..Len(q) : ~q[j].loads}})
         IN  /\ s \in Seq(CallRecord)
             /\ \A m \in 1..Len(s) : s[m].gone /\ ~s[m].loads
             /\ \A d : CallsKnown(q, d) => CallsKnown(s, d)
             /\ (\A i \in 1..Len(q) : q[i].loads) => Len(s) = 0
  <1> DEFINE J == {j \in 1..Len(q) : ~q[j].loads}
             e(i) == [q[i] EXCEPT !.gone = TRUE]
             R == {e(i) : i \in J}
             s == SetToSeq(R)
  <1>1. Len(q) \in Nat /\ \A j \in 1..Len(q) : q[j] \in CallRecord
    BY LenProperties, ElementOfSeq
  <1>2. \A i \in J : /\ e(i) \in CallRecord /\ Like(e(i), q[i])
                     /\ e(i).gone /\ ~e(i).loads /\ e(i).dropped = q[i].dropped
    BY <1>1, MarkGone DEF Like
  <1>3. IsFiniteSet(J)
    <2>1. IsFiniteSet(1..Len(q))  BY <1>1, FS_Interval
    <2>2. QED  BY <2>1, FS_Subset
  <1>4. IsFiniteSet(R)
    <2> HIDE DEF J, e
    <2> DEFINE f == [i \in J |-> e(i)]
    <2>1. f \in Surjection(J, R)  BY DEF Surjection
    <2>2. QED  BY <1>3, <2>1, FS_Surjection
  <1>5. R \in SUBSET CallRecord /\ (J = {} => R = {})  BY <1>2
  <1>6. \A r \in R : \E i \in J : r = e(i)  OBVIOUS
  <1>7. J \subseteq 1..Len(q) /\ ((\A i \in 1..Len(q) : q[i].loads) => J = {})  OBVIOUS
  <1> HIDE DEF J, e, R
  <1>8. s \in Seq(R)  BY <1>4, SetToSeqFacts
  <1>9. s \in Seq(CallRecord)  BY <1>5, <1>8, SeqMonotonic
  <1>10. Len(s) \in Nat /\ \A m \in 1..Len(s) : s[m] \in R  BY <1>8, LenProperties, ElementOfSeq
  <1> HIDE DEF s
  <1>11. \A m \in 1..Len(s) : \E i \in 1..Len(q) :
           /\ Like(s[m], q[i]) /\ s[m].gone /\ ~s[m].loads /\ s[m].dropped = q[i].dropped
    BY <1>2, <1>6, <1>7, <1>10
  <1>12. ASSUME NEW d, CallsKnown(q, d) PROVE CallsKnown(s, d)
    <2> SUFFICES ASSUME NEW m \in 1..Len(s) PROVE Known(s[m]) /\ Served(s[m], d)
      BY DEF CallsKnown
    <2>1. PICK i \in 1..Len(q) : Like(s[m], q[i]) /\ s[m].gone /\ ~s[m].loads /\ s[m].dropped = q[i].dropped
      BY <1>11
    <2>2. Known(q[i]) /\ Served(q[i], d)  BY <1>12 DEF CallsKnown
    <2>3. Known(s[m])  BY <2>1, <2>2 DEF Known, CommandOf, Like
    <2>4. Told(s[m]) <=> Told(q[i])  BY <2>1, LikeTold
    <2>5. Served(s[m], d)  BY <2>1, <2>2, <2>4 DEF Served, Like
    <2>6. QED  BY <2>3, <2>5
  <1>13. ASSUME \A i \in 1..Len(q) : q[i].loads PROVE Len(s) = 0
    <2>1. R = {}  BY <1>5, <1>7, <1>13
    <2>2. QED  BY <1>10, <2>1
  <1>14. s = SetToSeq({[q[i] EXCEPT !.gone = TRUE] : i \in {j \in 1..Len(q) : ~q[j].loads}})
    BY DEF s, R, J, e
  <1>15. QED  BY <1>9, <1>11, <1>12, <1>13, <1>14

\* The page is left.
LEMMA UnmountStep ==
  ASSUME TypeOK, Consistent, NEW q \in Seq(CallRecord), CallsKnown(q, data),
         issued = 0 => \A i \in 1..Len(q) : q[i].loads,
         Unmounts(q), answered' \in [Keys -> SUBSET Nat], \A k \in Keys : answered'[k] \subseteq data[k],
         UNCHANGED <<page, slot, sel, data, issued>>
  PROVE  Keeps
  <1>1. /\ here' = FALSE /\ shown' = Nothing /\ up' = {} /\ excused' = FALSE
        /\ page' = page /\ slot' = slot /\ sel' = sel /\ data' = data /\ issued' = issued
        /\ calls' = SetToSeq({[q[i] EXCEPT !.gone = TRUE] : i \in {j \in 1..Len(q) : ~q[j].loads}})
    BY DEF Unmounts
  <1>2. /\ calls' \in Seq(CallRecord)
        /\ \A m \in 1..Len(calls') : calls'[m].gone /\ ~calls'[m].loads
        /\ CallsKnown(calls', data')
        /\ issued' = 0 => Len(calls') = 0
    BY <1>1, GoneFacts
  <1>3. TypeOK'  BY <1>1, <1>2 DEF TypeOK
  <1>4. Consistent'
    <2>1. issued' = 0 => \A i \in 1..Len(calls') : calls'[i].loads  BY <1>2
    <2>2. ~Keyed => sel' = First  BY <1>1 DEF Consistent
    <2>3. QED  BY <1>1, <1>2, <2>1, <2>2, SameSlot
  <1>5. \A m \in 1..Len(calls') : ~Active(calls'[m])  BY <1>2 DEF Active
  <1>6. FlagsInv'
    <2>1. LowerTheirs(calls')  BY <1>2 DEF LowerTheirs
    <2>2. HaveCalls(calls', up')  BY <1>1 DEF HaveCalls
    <2>3. AreSingle(calls', up')  BY <1>5, IdleFacts
    <2>4. QED  BY <1>1, <2>1, <2>2, <2>3, SameSlot
  <1>7. OwnInv'  BY <1>1, <1>5, IdleFacts, SameSlot
  <1>8. SelInv'  BY <1>1, <1>5, IdleFacts, SameSlot
  <1>9. QED  BY <1>3, <1>4, <1>6, <1>7, <1>8 DEF Keeps

\* The user goes elsewhere.
LEMMA LeaveStep ==
  ASSUME TypeOK, Consistent, Leave
  PROVE  Keeps
  <1>1. Unmounts(calls) /\ UNCHANGED <<page, slot, sel, data, answered, issued>>  BY DEF Leave
  <1>2. answered' \in [Keys -> SUBSET Nat] /\ \A k \in Keys : answered'[k] \subseteq data[k]
    BY <1>1 DEF TypeOK, Consistent
  <1>3. calls \in Seq(CallRecord) /\ CallsKnown(calls, data) /\ (issued = 0 => \A i \in 1..Len(calls) : calls[i].loads)
    BY DEF TypeOK, Consistent
  <1>4. QED  BY <1>1, <1>2, <1>3, UnmountStep
\* The flags of loads are words.
LEMMA SpinningFacts ==
  ASSUME TypeOK, NEW w \in Ways, NEW L \in SUBSET LOADS[page][slot][w]
  PROVE  Spinning(L, w) \subseteq Word
  <1>1. L \subseteq LoadRecord  BY PageFacts
  <1>2. \A l \in L : l.spinner \in Word  BY <1>1 DEF LoadRecord
  <1>3. QED  BY <1>2 DEF Spinning, Spins

\* The page is opened: nothing of what is under way concerns it.
LEMMA MountStep ==
  ASSUME TypeOK, Consistent, NEW k \in Keys, Mount(k)
  PROVE  Keeps
  <1> DEFINE L == LOADS[page][slot]["mount"]
             s == Started(calls, L, k, "mount", {})
  <1>1. /\ ~here /\ here' = TRUE /\ sel' = k /\ shown' = Nothing /\ excused' = FALSE
        /\ calls' = s /\ up' = Spinning(L, "mount")
        /\ page' = page /\ slot' = slot /\ data' = data /\ answered' = answered /\ issued' = issued
        /\ ~Keyed => k = sel
    BY DEF Mount
  <1>2. /\ "mount" \in Ways /\ L \in SUBSET LOADS[page][slot]["mount"] /\ {} \in SUBSET (Word \ {None})
        /\ calls \in Seq(CallRecord)
    BY DEF Ways, TypeOK
  <1> HIDE DEF L
  <1>3. ~Keyed => k = First  BY <1>1 DEF Consistent
  <1>4. \A i \in 1..Len(calls) : ~Active(calls[i])  BY <1>1 DEF Consistent, Active
  <1>5. /\ s \in Seq(CallRecord)
        /\ \A d : CallsKnown(calls, d) => CallsKnown(s, d)
        /\ (\A j \in 1..Len(calls) : calls[j].loads) => \A j \in 1..Len(s) : s[j].loads
        /\ LowerTheirs(calls) => LowerTheirs(s)
        /\ \A u, d : HaveCalls(calls, u) /\ LowerTheirs(calls) /\ CallsKnown(calls, d) =>
             HaveCalls(s, u \cup Spinning(L, "mount"))
        /\ \A u, v : AreSingle(calls, u) /\ u \subseteq v /\ OnceIsGuarded(ThePage, slot)
                       /\ TakesOver(calls, L, {}, v) => AreSingle(s, v)
    BY <1>2, <1>3, StartedKeeps
  <1>6. /\ \A a, d : CallsTell(calls, a, d) /\ a[k] \subseteq d[k] => CallsTell(s, a, d)
        /\ (\A l \in L : slot \in l.sets) /\ CallsFollow(calls, k) => CallsFollow(s, k)
    BY <1>2, StartedTells, StartedFollows
  <1> HIDE DEF s
  <1>7. TypeOK'
    <2>1. Spinning(L, "mount") \subseteq Word  BY <1>2, SpinningFacts
    <2>2. QED  BY <1>1, <1>5, <2>1 DEF TypeOK
  <1>8. Consistent'
    <2>1. CallsKnown(calls', data')  BY <1>1, <1>5 DEF Consistent
    <2>2. issued' = 0 => \A i \in 1..Len(calls') : calls'[i].loads  BY <1>1, <1>5 DEF Consistent
    <2>3. \A o \in Keys : answered'[o] \subseteq data'[o]  BY <1>1 DEF Consistent
    <2>4. QED  BY <1>1, <1>3, <2>1, <2>2, <2>3, SameSlot
  <1>9. ASSUME Guarded, FlagsInv PROVE FlagsInv'
    <2>1. LowerTheirs(calls')  BY <1>1, <1>5, <1>9 DEF FlagsInv
    <2>2. HaveCalls(calls', up')
      <3>1. HaveCalls(calls, {})  BY DEF HaveCalls
      <3>2. HaveCalls(s, {} \cup Spinning(L, "mount"))  BY <1>5, <1>9, <3>1 DEF FlagsInv, Consistent
      <3>3. {} \cup Spinning(L, "mount") = up'  BY <1>1
      <3>4. QED  BY <1>1, <3>2, <3>3
    <2>3. AreSingle(calls', up')
      <3>1. AreSingle(calls, up')  BY <1>4, IdleFacts
      <3>2. TakesOver(calls, L, {}, up')  BY DEF TakesOver
      <3>3. QED  BY <1>1, <1>5, <1>9, <3>1, <3>2 DEF Guarded
    <2>4. QED  BY <1>1, <2>1, <2>2, <2>3, SameSlot
  <1>10. OwnInv'
    <2>1. CallsTell(calls, answered, data)  BY <1>4, IdleFacts
    <2>2. answered[k] \subseteq data[k]  BY DEF Consistent
    <2>3. CallsTell(calls', answered', data')  BY <1>1, <1>6, <2>1, <2>2
    <2>4. QED  BY <1>1, <2>3, SameSlot
  <1>11. ASSUME Following PROVE SelInv'
    <2>1. CASE ~Keyed
      <3>1. CallsFollow(calls', sel')  BY <1>1, <1>3, <1>8, <2>1, SameSlot, UnkeyedFollows
      <3>2. QED  BY <1>1, <3>1, SameSlot
    <2>2. CASE Keyed
      <3>1. CallsFollow(calls, k)  BY <1>4, IdleFacts
      <3>2. L \subseteq Loads  BY <1>2, PageFacts
      <3>3. ~Stays' => \A l \in L : slot \in l.sets  BY <1>1, <1>11, <2>2, <3>2, StaysOn, LoadsFollow
      <3>4. ~Stays' => CallsFollow(calls', sel')  BY <1>1, <1>6, <3>1, <3>3
      <3>5. QED  BY <1>1, <3>4, SameSlot
    <2>3. QED  BY <2>1, <2>2
  <1>12. QED  BY <1>7, <1>8, <1>9, <1>10, <1>11 DEF Keeps

\* A load starts.  Its key is the selection, but for a listener that has the first one.
LEMMA StartLoadStep ==
  ASSUME TypeOK, Consistent, NEW w \in Ways, NEW k \in Keys, StartLoad(w, k),
         k = sel \/ (w = "key" /\ k = First)
  PROVE  Keeps
  <1>1. PICK l \in LOADS[page][slot][w] :
          /\ calls' = Started(calls, {l}, k, w, {})
          /\ up' = up \cup Spins(l, w)
          /\ here /\ here' = here /\ sel' = sel /\ shown' = shown /\ excused' = excused
          /\ page' = page /\ slot' = slot /\ data' = data /\ answered' = answered /\ issued' = issued
    BY DEF StartLoad
  <1> DEFINE L == {l}
             s == Started(calls, L, k, w, {})
  <1>2. /\ L \in SUBSET LOADS[page][slot][w] /\ {} \in SUBSET (Word \ {None})
        /\ calls \in Seq(CallRecord) /\ L # {}
    BY DEF TypeOK
  <1>3. Spins(l, w) = Spinning(L, w)  BY DEF Spinning
  <1>4. l \in Loads /\ w \in l.ways  BY PageFacts
  <1>5. calls' = s  BY <1>1
  <1> HIDE DEF L
  <1>6. ~Keyed => k = First  BY DEF Consistent
  <1>7. /\ s \in Seq(CallRecord)
        /\ \A d : CallsKnown(calls, d) => CallsKnown(s, d)
        /\ (\A j \in 1..Len(calls) : calls[j].loads) => \A j \in 1..Len(s) : s[j].loads
        /\ LowerTheirs(calls) => LowerTheirs(s)
        /\ \A u, d : HaveCalls(calls, u) /\ LowerTheirs(calls) /\ CallsKnown(calls, d) =>
             HaveCalls(s, u \cup Spinning(L, w))
        /\ \A u, v : AreSingle(calls, u) /\ u \subseteq v /\ OnceIsGuarded(ThePage, slot)
                       /\ TakesOver(calls, L, {}, v) => AreSingle(s, v)
    BY <1>2, <1>6, StartedKeeps
  <1>8. /\ \A a, d : CallsTell(calls, a, d) /\ a[k] \subseteq d[k] => CallsTell(s, a, d)
        /\ \A v, a, d : Tells(v, calls, a, d) => Tells(v, s, a, d)
    BY <1>2, StartedTells
  <1>9. slot \in l.sets => CallsFollow(s, k) /\ IsFollowed(s, k)
    <2>1. L = {l}  BY DEF L
    <2>2. QED  BY <1>2, <2>1, StartedFollows
  <1> HIDE DEF s
  <1>10. TypeOK'
    <2>1. Spinning(L, w) \subseteq Word  BY <1>2, SpinningFacts
    <2>2. QED  BY <1>1, <1>3, <1>5, <1>7, <2>1 DEF TypeOK
  <1>11. Consistent'
    <2>1. CallsKnown(calls', data')  BY <1>1, <1>5, <1>7 DEF Consistent
    <2>2. issued' = 0 => \A i \in 1..Len(calls') : calls'[i].loads  BY <1>1, <1>5, <1>7 DEF Consistent
    <2>3. \A o \in Keys : answered'[o] \subseteq data'[o]  BY <1>1 DEF Consistent
    <2>4. ~Keyed => sel' = First /\ (shown' # Nothing => shown'.of = First)  BY <1>1 DEF Consistent
    <2>5. QED  BY <1>1, <2>1, <2>2, <2>3, <2>4, SameSlot
  <1>12. ASSUME Guarded, FlagsInv PROVE FlagsInv'
    <2>1. LowerTheirs(calls')  BY <1>5, <1>7, <1>12 DEF FlagsInv
    <2>2. HaveCalls(calls', up')  BY <1>1, <1>3, <1>5, <1>7, <1>12 DEF FlagsInv, Consistent
    <2>3. AreSingle(calls', up')
      <3>1. AreSingle(calls, up) /\ up \subseteq up'  BY <1>1, <1>12 DEF FlagsInv
      <3>2. TakesOver(calls, L, {}, up')  BY DEF TakesOver
      <3>3. QED  BY <1>5, <1>7, <1>12, <3>1, <3>2 DEF Guarded
    <2>4. QED  BY <1>1, <2>1, <2>2, <2>3, SameSlot
  <1>13. ASSUME OwnInv PROVE OwnInv'
    <2>1. answered[k] \subseteq data[k]  BY DEF Consistent
    <2>2. CallsTell(calls', answered', data')  BY <1>1, <1>5, <1>8, <1>13, <2>1 DEF OwnInv
    <2>3. shown # Nothing /\ ~excused => Tells(shown, calls, answered, data)  BY <1>13 DEF OwnInv
    <2>4. shown' # Nothing /\ ~excused' => Tells(shown', calls', answered', data')
      BY <1>1, <1>5, <1>8, <2>3
    <2>5. QED  BY <1>1, <2>2, <2>4, SameSlot
  <1>14. ASSUME Following PROVE SelInv'
    <2>1. CASE ~Keyed
      <3>1. CallsFollow(calls', First)  BY <1>1, <1>11, <2>1, SameSlot, UnkeyedFollows
      <3>2. sel' = First /\ (shown' # Nothing => shown'.of = First)  BY <1>1, <2>1 DEF Consistent
      <3>3. QED  BY <1>1, <3>1, <3>2, SameSlot
    <2>2. CASE Keyed
      <3> SUFFICES ASSUME ~Stays' PROVE CallsFollow(calls', sel') /\ IsFollowed(calls', sel')
        BY <1>1, SameSlot
      <3>1. ~Stays  BY <1>1, StaysOn
      <3>2. /\ slot \in ThePage.keyed /\ <<ThePage.name, slot>> \notin Staying
            /\ l \in LoadsOn(ThePage, slot) /\ slot \in l.sets
        BY <1>4, <1>14, <2>2, <3>1, LoadsFollow
      <3>3. w # "key"  BY <1>4, <1>14, <3>2 DEF Following, SelectionIsLoaded
      <3>4. QED  BY <1>1, <1>5, <1>9, <3>2, <3>3
    <2>3. QED  BY <2>1, <2>2
  <1>15. QED  BY <1>10, <1>11, <1>12, <1>13, <1>14 DEF Keeps
\* The cleanup of an effect drops what it started.
Kept(q) == [i \in 1..Len(q) |-> IF q[i].tied THEN [q[i] EXCEPT !.dropped = TRUE] ELSE q[i]]
LEMMA KeptFacts ==
  ASSUME NEW q \in Seq(CallRecord)
  PROVE  /\ Kept(q) \in Seq(CallRecord) /\ Len(Kept(q)) = Len(q)
         /\ \A j \in 1..Len(q) :
              /\ Like(Kept(q)[j], q[j]) /\ Kept(q)[j].late = q[j].late /\ Kept(q)[j].gone = q[j].gone
              /\ Kept(q)[j].dropped <=> q[j].dropped \/ q[j].tied
  <1> DEFINE e(j) == IF q[j].tied THEN [q[j] EXCEPT !.dropped = TRUE] ELSE q[j]
             s == [j \in 1..Len(q) |-> e(j)]
  <1>1. Len(q) \in Nat /\ \A j \in 1..Len(q) : q[j] \in CallRecord
    BY LenProperties, ElementOfSeq
  <1>2. ASSUME NEW j \in 1..Len(q)
        PROVE  /\ e(j) \in CallRecord /\ Like(e(j), q[j])
               /\ e(j).late = q[j].late /\ e(j).gone = q[j].gone
               /\ e(j).dropped <=> q[j].dropped \/ q[j].tied
    <2>1. CASE q[j].tied
      <3>1. e(j) = [q[j] EXCEPT !.dropped = TRUE]  BY <2>1
      <3>2. QED  BY <1>1, <2>1, <3>1, MarkDropped
    <2>2. CASE ~q[j].tied
      <3>1. e(j) = q[j]  BY <2>2
      <3>2. QED  BY <1>1, <2>2, <3>1 DEF Like
    <2>3. QED  BY <2>1, <2>2
  <1> HIDE DEF e
  <1>3. s \in Seq(CallRecord) /\ Len(s) = Len(q)
    <2>1. s \in [1..Len(q) -> CallRecord]  BY <1>2
    <2>2. s \in Seq(CallRecord)  BY <1>1, <2>1, SeqDef
    <2>3. QED  BY <1>1, <2>1, <2>2, LenProperties
  <1>4. \A j \in 1..Len(q) : s[j] = e(j)  OBVIOUS
  <1>5. s = Kept(q)  BY DEF Kept, e
  <1> HIDE DEF s
  <1>6. QED  BY <1>2, <1>3, <1>4, <1>5

\* What is known of the others stays.
LEMMA KeptKeeps ==
  ASSUME NEW q \in Seq(CallRecord)
  PROVE  /\ \A d : CallsKnown(q, d) => CallsKnown(Kept(q), d)
         /\ (\A j \in 1..Len(q) : q[j].loads) => \A j \in 1..Len(Kept(q)) : Kept(q)[j].loads
         /\ LowerTheirs(q) => LowerTheirs(Kept(q))
         /\ \A u : AreSingle(q, u) => AreSingle(Kept(q), u)
         /\ \A a, d : CallsTell(q, a, d) => CallsTell(Kept(q), a, d)
         /\ \A v, a, d : Tells(v, q, a, d) => Tells(v, Kept(q), a, d)
  <1> DEFINE s == Kept(q)
  <1>1. /\ Len(s) = Len(q)
        /\ \A j \in 1..Len(q) :
             /\ Like(s[j], q[j]) /\ s[j].late = q[j].late /\ s[j].gone = q[j].gone
             /\ s[j].dropped <=> q[j].dropped \/ q[j].tied
    BY KeptFacts
  <1> HIDE DEF s
  <1>2. \A j \in 1..Len(q) : /\ Told(s[j]) <=> Told(q[j])
                             /\ Active(s[j]) => Active(q[j])
                             /\ Fresh(s[j]) => Fresh(q[j])
                             /\ s[j].lowers = q[j].lowers /\ s[j].of = q[j].of /\ s[j].loads = q[j].loads
    BY <1>1, LikeTold DEF Active, Fresh, Like
  <1>3. \A j \in 1..Len(q) : Known(q[j]) => Known(s[j])
    BY <1>1 DEF Known, LoadOf, CommandOf, Like
  <1>4. \A d : \A j \in 1..Len(q) : Served(q[j], d) => Served(s[j], d)
    BY <1>1, <1>2 DEF Served, Like
  <1>5. \A n, d : \A j \in 1..Len(q) : Knows(q[j], n, d) <=> Knows(s[j], n, d)
    BY <1>1 DEF Knows, Like
  <1>6. \A k, n, d : \A j \in 1..Len(q) : Brings(q[j], k, n, d) => Brings(s[j], k, n, d)
    BY <1>1, <1>2, <1>5 DEF Brings, Like
  <1>7. \A d : CallsKnown(q, d) => CallsKnown(s, d)  BY <1>1, <1>3, <1>4 DEF CallsKnown
  <1>8. LowerTheirs(q) => LowerTheirs(s)  BY <1>1 DEF LowerTheirs, Like
  <1>9. \A u : AreSingle(q, u) => AreSingle(s, u)  BY <1>1, <1>2 DEF AreSingle
  <1>10. \A a, d : CallsTell(q, a, d) => CallsTell(s, a, d)
    BY <1>1, <1>2, <1>5, <1>6 DEF CallsTell
  <1>11. \A v, a, d : Tells(v, q, a, d) => Tells(v, s, a, d)  BY <1>1, <1>6 DEF Tells
  <1>12. (\A j \in 1..Len(q) : q[j].loads) => \A j \in 1..Len(s) : s[j].loads  BY <1>1, <1>2
  <1>13. QED  BY <1>7, <1>8, <1>9, <1>10, <1>11, <1>12 DEF s

\* Another selection: what is dropped has a successor, and what is asked for follows it.
LEMMA SelectStep ==
  ASSUME TypeOK, Consistent, NEW k \in Keys, Select(k)
  PROVE  Keeps
  <1> DEFINE L == LOADS[page][slot]["select"]
             q == Kept(calls)
             s == Started(q, L, k, "select", {})
  <1>1. /\ here /\ here' = here /\ Keyed /\ sel' = k /\ excused' = excused
        /\ calls' = s /\ up' = up \cup Spinning(L, "select")
        /\ shown' = Nothing \/ shown' = shown
        /\ page' = page /\ slot' = slot /\ data' = data /\ answered' = answered /\ issued' = issued
    BY DEF Select, Kept
  <1>2. /\ "select" \in Ways /\ L \in SUBSET LOADS[page][slot]["select"] /\ {} \in SUBSET (Word \ {None})
        /\ calls \in Seq(CallRecord)
    BY DEF Ways, TypeOK
  <1>3. L = {l \in Loads : "select" \in l.ways}  BY <1>2, PageFacts
  <1> HIDE DEF L
  <1>4. q \in Seq(CallRecord)  BY <1>2, KeptFacts
  <1>5. \A j \in 1..Len(calls) :
          /\ j \in 1..Len(q) /\ Like(q[j], calls[j]) /\ q[j].gone = calls[j].gone
          /\ q[j].dropped <=> calls[j].dropped \/ calls[j].tied
    BY <1>2, KeptFacts
  <1>6. /\ \A d : CallsKnown(calls, d) => CallsKnown(q, d)
        /\ (\A j \in 1..Len(calls) : calls[j].loads) => \A j \in 1..Len(q) : q[j].loads
        /\ LowerTheirs(calls) => LowerTheirs(q)
        /\ \A u : AreSingle(calls, u) => AreSingle(q, u)
        /\ \A a, d : CallsTell(calls, a, d) => CallsTell(q, a, d)
        /\ \A v, a, d : Tells(v, calls, a, d) => Tells(v, q, a, d)
    BY <1>2, KeptKeeps
  <1> HIDE DEF q
  <1>7. /\ s \in Seq(CallRecord)
        /\ \A d : CallsKnown(q, d) => CallsKnown(s, d)
        /\ (\A j \in 1..Len(q) : q[j].loads) => \A j \in 1..Len(s) : s[j].loads
        /\ LowerTheirs(q) => LowerTheirs(s)
        /\ \A u, d : HaveCalls(q, u) /\ LowerTheirs(q) /\ CallsKnown(q, d) =>
             HaveCalls(s, u \cup Spinning(L, "select"))
        /\ \A u, v : AreSingle(q, u) /\ u \subseteq v /\ OnceIsGuarded(ThePage, slot)
                       /\ TakesOver(q, L, {}, v) => AreSingle(s, v)
    BY <1>1, <1>2, <1>4, StartedKeeps
  <1>8. /\ \A a, d : CallsTell(q, a, d) /\ a[k] \subseteq d[k] => CallsTell(s, a, d)
        /\ \A v, a, d : Tells(v, q, a, d) => Tells(v, s, a, d)
    BY <1>2, <1>4, StartedTells
  <1>9. (\A l \in L : slot \in l.sets) => \A l \in L : CallsFollow(s, k) /\ IsFollowed(s, k)
    BY <1>2, <1>4, StartedFollows
  <1>10. \A l \in L : \E j \in 1..Len(s) : LoadMade(s[j], l, k, "select", {})
    <2>1. \A l \in L : \E j \in 1..Len(s) : Added(s, q, j, l, k, "select", {})
      BY <1>2, <1>4, StartedSplit
    <2>2. \A j \in 1..Len(s), l \in L : Added(s, q, j, l, k, "select", {}) => LoadMade(s[j], l, k, "select", {})
      BY <1>2, <1>4, StartedSplit
    <2>3. QED  BY <2>1, <2>2
  <1> HIDE DEF s
  <1>11. CallsKnown(calls', data')  BY <1>1, <1>6, <1>7 DEF Consistent
  <1>12. TypeOK'
    <2>1. Spinning(L, "select") \subseteq Word  BY <1>2, SpinningFacts
    <2>2. QED  BY <1>1, <1>7, <2>1 DEF TypeOK
  <1>13. Consistent'
    <2>1. issued' = 0 => \A i \in 1..Len(calls') : calls'[i].loads  BY <1>1, <1>6, <1>7 DEF Consistent
    <2>2. \A o \in Keys : answered'[o] \subseteq data'[o]  BY <1>1 DEF Consistent
    <2>3. QED  BY <1>1, <1>11, <2>1, <2>2, SameSlot
  <1>14. ASSUME Guarded, FlagsInv PROVE FlagsInv'
    <2>1. LowerTheirs(calls')  BY <1>1, <1>6, <1>7, <1>14 DEF FlagsInv
    <2>2. HaveCalls(calls', up')
      <3> DEFINE U == {f \in up : \E i \in 1..Len(q) : Active(q[i]) /\ f \in q[i].lowers}
      <3>1. HaveCalls(q, U)  BY DEF HaveCalls
      <3>2. LowerTheirs(q) /\ CallsKnown(q, data)  BY <1>6, <1>14 DEF FlagsInv, Consistent
      <3>3. HaveCalls(s, U \cup Spinning(L, "select"))  BY <1>7, <3>1, <3>2
      <3>4. ASSUME NEW f \in up, f \notin U PROVE \E j \in 1..Len(s) : Active(s[j]) /\ f \in s[j].lowers
        <4>1. PICK i \in 1..Len(calls) : Active(calls[i]) /\ f \in calls[i].lowers
          BY <1>14 DEF FlagsInv, HaveCalls
        <4>2. calls[i].tied  BY <1>5, <3>4, <4>1 DEF Active, Like
        <4>3. Known(calls[i])  BY DEF Consistent, CallsKnown
        <4>4. calls[i].loads  BY <4>2, <4>3 DEF Known, CommandOf
        <4>5. PICK l \in Loads : LoadOf(calls[i], l)  BY <4>3, <4>4 DEF Known
        <4>6. l \in L
          <5>1. l.guard = "alive" /\ l.ways \cap {"mount", "select"} # {}  BY <4>2, <4>5 DEF LoadOf
          <5>2. slot \in ThePage.keyed  BY <1>1 DEF Keyed, ThePage
          <5>3. QED  BY <1>3, <1>14, <5>1, <5>2 DEF Guarded, FlagsAreLowered, Loads
        <4>7. calls[i].h.spinner = l.spinner  BY <4>5, PageFacts, DoesFacts DEF LoadOf
        <4>8. f = l.spinner /\ f # None
          BY <1>14, <4>1, <4>2, <4>3, <4>4, <4>7 DEF FlagsInv, LowerTheirs, Known
        <4>9. PICK j \in 1..Len(s) : LoadMade(s[j], l, k, "select", {})  BY <1>10, <4>6
        <4>10. QED  BY <4>8, <4>9 DEF LoadMade, Active
      <3>5. QED  BY <1>1, <3>3, <3>4 DEF HaveCalls
    <2>3. AreSingle(calls', up')
      <3>1. AreSingle(q, up) /\ up \subseteq up'  BY <1>1, <1>6, <1>14 DEF FlagsInv
      <3>2. TakesOver(q, L, {}, up')  BY DEF TakesOver
      <3>3. QED  BY <1>1, <1>7, <1>14, <3>1, <3>2 DEF Guarded
    <2>4. QED  BY <1>1, <2>1, <2>2, <2>3, SameSlot
  <1>15. ASSUME OwnInv PROVE OwnInv'
    <2>1. answered[k] \subseteq data[k]  BY DEF Consistent
    <2>2. CallsTell(calls', answered', data')  BY <1>1, <1>6, <1>8, <1>15, <2>1 DEF OwnInv
    <2>3. shown # Nothing /\ ~excused => Tells(shown, calls, answered, data)  BY <1>15 DEF OwnInv
    <2>4. shown' # Nothing /\ ~excused' => Tells(shown', calls', answered', data')
      BY <1>1, <1>6, <1>8, <2>3
    <2>5. QED  BY <1>1, <2>2, <2>4, SameSlot
  <1>16. ASSUME Following PROVE SelInv'
    <2>1. ASSUME ~Stays' PROVE (\E l \in L : TRUE) /\ \A l \in L : slot \in l.sets
      <3>1. ~Stays  BY <1>1, <2>1, StaysOn
      <3>2. /\ slot \in ThePage.keyed /\ <<ThePage.name, slot>> \notin Staying
            /\ Loads = LoadsOn(ThePage, slot) /\ \A l \in Loads : slot \in l.sets
        BY <1>1, <1>16, <3>1, LoadsFollow
      <3>3. \E l \in L : TRUE  BY <1>3, <1>16, <3>2 DEF Following, SelectionIsLoaded
      <3>4. QED  BY <1>3, <3>2, <3>3
    <2>2. ~Stays' => CallsFollow(calls', sel') /\ IsFollowed(calls', sel')
      BY <1>1, <1>9, <2>1
    <2>3. QED  BY <1>1, <2>2, SameSlot
  <1>17. QED  BY <1>12, <1>13, <1>14, <1>15, <1>16 DEF Keeps
\* A request behind the others.
LEMMA AppendFacts ==
  ASSUME NEW S, NEW q \in Seq(S), NEW e \in S
  PROVE  /\ Append(q, e) \in Seq(S)
         /\ \A j \in 1..Len(q) : j \in 1..Len(Append(q, e)) /\ Append(q, e)[j] = q[j]
         /\ \A j \in 1..Len(Append(q, e)) : j \in 1..Len(q) \/ Append(q, e)[j] = e
         /\ \E j \in 1..Len(Append(q, e)) : j \notin 1..Len(q) /\ Append(q, e)[j] = e
         /\ \A j, m \in 1..Len(Append(q, e)) : j \notin 1..Len(q) /\ m \notin 1..Len(q) => j = m
  <1> DEFINE s == Append(q, e)
  <1>1. Len(q) \in Nat  BY LenProperties
  <1>2. /\ s \in Seq(S) /\ Len(s) = Len(q) + 1
        /\ \A j \in 1..Len(q) : s[j] = q[j]
        /\ s[Len(q) + 1] = e
    BY AppendProperties
  <1> HIDE DEF s
  <1>3. \A j \in 1..Len(q) : j \in 1..Len(s)  BY <1>1, <1>2
  <1>4. \A j \in 1..Len(s) : j \in 1..Len(q) \/ j = Len(q) + 1  BY <1>1, <1>2
  <1>5. Len(q) + 1 \in 1..Len(s) /\ Len(q) + 1 \notin 1..Len(q)  BY <1>1, <1>2
  <1>6. QED  BY <1>2, <1>3, <1>4, <1>5 DEF s

\* A command is given: where it means one submission, none is under way.
LEMMA DoStep ==
  ASSUME TypeOK, Consistent, Do
  PROVE  Keeps
  <1>1. PICK x \in COMMANDS[page][slot] :
          /\ Offered(x.name)
          /\ calls' = Append(calls, Request(x, FALSE, sel, issued + 1, "click", {}))
          /\ up' = up \cup ({x.flag} \ {None})
          /\ shown' = Nothing \/ shown' = shown
          /\ here /\ here' = here /\ sel' = sel /\ excused' = excused /\ issued' = issued + 1
          /\ page' = page /\ slot' = slot /\ data' = data /\ answered' = answered
    BY DEF Do
  <1> DEFINE c == Request(x, FALSE, sel, issued + 1, "click", {})
  <1>2. x \in Commands /\ x \in CommandRecord  BY PageFacts
  <1>3. issued \in Nat /\ issued + 1 \in Nat /\ issued + 1 # 0 /\ sel \in Keys /\ calls \in Seq(CallRecord)
    BY DEF TypeOK
  <1>4. /\ c \in CallRecord
        /\ c.h = Does(x) /\ ~c.loads /\ c.of = sel /\ c.no = issued + 1 /\ c.lowers = {x.flag} \ {None}
        /\ ~c.tied /\ c.answer = "sent" /\ ~c.dropped /\ ~c.late /\ ~c.gone
    BY <1>2, <1>3, CommandRequest
  <1>5. calls' = Append(calls, c)  BY <1>1
  <1> HIDE DEF c
  <1>6. /\ calls' \in Seq(CallRecord)
        /\ \A j \in 1..Len(calls) : j \in 1..Len(calls') /\ calls'[j] = calls[j]
        /\ \A j \in 1..Len(calls') : j \in 1..Len(calls) \/ calls'[j] = c
        /\ \E j \in 1..Len(calls') : j \notin 1..Len(calls) /\ calls'[j] = c
        /\ \A j, m \in 1..Len(calls') : j \notin 1..Len(calls) /\ m \notin 1..Len(calls) => j = m
    BY <1>3, <1>4, <1>5, AppendFacts
  <1>7. Known(c)
    <2>1. CommandOf(c, x)  BY <1>4 DEF CommandOf
    <2>2. QED  BY <1>2, <1>4, <2>1 DEF Known, Consistent
  <1>8. CallsKnown(calls', data')
    <2>1. Served(c, data)  BY <1>4 DEF Served
    <2>2. QED  BY <1>1, <1>6, <1>7, <2>1 DEF CallsKnown, Consistent
  <1>9. TypeOK'
    <2>1. x.flag \in Word  BY <1>2 DEF CommandRecord
    <2>2. QED  BY <1>1, <1>3, <1>6, <2>1 DEF TypeOK
  <1>10. Consistent'
    <2>1. \A o \in Keys : answered'[o] \subseteq data'[o]  BY <1>1 DEF Consistent
    <2>2. ~Keyed => sel' = First /\ (shown' # Nothing => shown'.of = First)  BY <1>1 DEF Consistent
    <2>3. issued' # 0 /\ here'  BY <1>1, <1>3
    <2>4. QED  BY <1>1, <1>8, <2>1, <2>2, <2>3, SameSlot
  <1>11. ASSUME Guarded, FlagsInv PROVE FlagsInv'
    <2>1. LowerTheirs(calls')  BY <1>4, <1>6, <1>11 DEF FlagsInv, LowerTheirs
    <2>2. HaveCalls(calls', up')
      <3>1. \A f \in up : \E i \in 1..Len(calls') : Active(calls'[i]) /\ f \in calls'[i].lowers
        BY <1>6, <1>11 DEF FlagsInv, HaveCalls
      <3>2. \A f \in {x.flag} \ {None} : \E i \in 1..Len(calls') : Active(calls'[i]) /\ f \in calls'[i].lowers
        BY <1>4, <1>6 DEF Active
      <3>3. QED  BY <1>1, <3>1, <3>2 DEF HaveCalls
    <2>3. AreSingle(calls', up')
      <3>1. ASSUME x.flag \in OnceFlags(ThePage, slot)
            PROVE  \A j \in 1..Len(calls) : ~(Active(calls[j]) /\ x.flag \in calls[j].lowers)
        <4>1. PICK b \in VIEWS[page][x.name] : b.unless \cap up = {}  BY <1>1 DEF Offered
        <4>2. b \in ThePage.views /\ b.does = x.name  BY <1>2, <4>1, PageFacts
        <4>3. x.flag \in b.unless  BY <1>2, <1>11, <3>1, <4>2 DEF Guarded, OnceIsGuarded, Commands
        <4>4. x.flag \notin up  BY <4>1, <4>3
        <4>5. QED  BY <1>11, <3>1, <4>4 DEF FlagsInv, AreSingle
      <3>2. ASSUME NEW f \in OnceFlags(ThePage, slot), NEW i \in 1..Len(calls'),
                   Active(calls'[i]), f \in calls'[i].lowers
            PROVE  f \in up' /\ \A j \in 1..Len(calls') : Active(calls'[j]) /\ f \in calls'[j].lowers => i = j
        <4>1. CASE i \in 1..Len(calls)
          <5>1. calls'[i] = calls[i]  BY <1>6, <4>1
          <5>2. f \in up /\ \A j \in 1..Len(calls) : Active(calls[j]) /\ f \in calls[j].lowers => i = j
            BY <1>11, <3>2, <4>1, <5>1 DEF FlagsInv, AreSingle
          <5>3. f # x.flag  BY <3>1, <3>2, <4>1, <5>1
          <5>4. \A j \in 1..Len(calls') : f \in calls'[j].lowers => j \in 1..Len(calls) /\ calls'[j] = calls[j]
            BY <1>4, <1>6, <5>3
          <5>5. QED  BY <1>1, <5>2, <5>4
        <4>2. CASE i \notin 1..Len(calls)
          <5>1. f = x.flag /\ f # None  BY <1>4, <1>6, <3>2, <4>2
          <5>2. \A j \in 1..Len(calls') : Active(calls'[j]) /\ f \in calls'[j].lowers => j \notin 1..Len(calls)
            BY <1>6, <3>1, <5>1
          <5>3. QED  BY <1>1, <1>6, <4>2, <5>1, <5>2
        <4>3. QED  BY <4>1, <4>2
      <3>3. QED  BY <3>2 DEF AreSingle
    <2>4. QED  BY <1>1, <2>1, <2>2, <2>3, SameSlot
  <1>12. ASSUME OwnInv PROVE OwnInv'
    <2>1. \A n \in answered[sel] : Knows(c, n, data)  BY <1>3, <1>4 DEF Consistent, Knows
    <2>2. CallsTell(calls, answered, data)  BY <1>12 DEF OwnInv
    <2>3. CallsTell(calls', answered', data')
      <3> SUFFICES ASSUME NEW j \in 1..Len(calls'), Fresh(calls'[j]), NEW n \in answered[calls'[j].of],
                          ~Knows(calls'[j], n, data)
                   PROVE  \E i \in 1..Len(calls') : i > j /\ Brings(calls'[i], calls'[j].of, n, data)
        BY <1>1 DEF CallsTell
      <3>1. j \in 1..Len(calls) /\ calls'[j] = calls[j]  BY <1>4, <1>6, <2>1
      <3>2. \E i \in 1..Len(calls) : i > j /\ Brings(calls[i], calls[j].of, n, data)
        BY <2>2, <3>1 DEF CallsTell
      <3>3. QED  BY <1>6, <3>1, <3>2
    <2>4. shown # Nothing /\ ~excused => Tells(shown, calls, answered, data)  BY <1>12 DEF OwnInv
    <2>5. \A v : Tells(v, calls, answered, data) => Tells(v, calls', answered, data)
      BY <1>6 DEF Tells
    <2>6. QED  BY <1>1, <2>3, <2>4, <2>5, SameSlot
  <1>13. ASSUME SelInv PROVE SelInv'
    <2>1. ~Stays' => ~Stays  BY <1>1, StaysOn
    <2>2. CallsFollow(calls, sel) => CallsFollow(calls', sel')
      <3> SUFFICES ASSUME CallsFollow(calls, sel), NEW j \in 1..Len(calls'),
                          calls'[j].loads, Fresh(calls'[j]), calls'[j].of # sel
                   PROVE  \E i \in 1..Len(calls') : i > j /\ Follows(calls'[i], sel)
        BY <1>1 DEF CallsFollow
      <3>1. j \in 1..Len(calls) /\ calls'[j] = calls[j]  BY <1>4, <1>6
      <3>2. \E i \in 1..Len(calls) : i > j /\ Follows(calls[i], sel)  BY <3>1 DEF CallsFollow
      <3>3. QED  BY <1>6, <3>2
    <2>3. IsFollowed(calls, sel) => IsFollowed(calls', sel')  BY <1>1, <1>6 DEF IsFollowed
    <2>4. QED  BY <1>1, <1>13, <2>1, <2>2, <2>3, SameSlot DEF SelInv
  <1>14. QED  BY <1>9, <1>10, <1>11, <1>12, <1>13 DEF Keeps
\* A request that was served, and nothing else happened to it.
Unserved(c, d) ==
  /\ c.h = d.h /\ c.loads = d.loads /\ c.of = d.of /\ c.no = d.no /\ c.lowers = d.lowers
  /\ c.tied = d.tied /\ c.dropped = d.dropped /\ c.late = d.late /\ c.gone = d.gone

\* A request is served: what is known of effects only grows.
LEMMA ServeStep ==
  ASSUME TypeOK, Consistent, NEW i, Serve(i)
  PROVE  Keeps
  <1>1. /\ i \in 1..Len(calls) /\ calls[i].answer = "sent"
        /\ page' = page /\ slot' = slot /\ here' = here /\ sel' = sel /\ shown' = shown /\ up' = up
        /\ answered' = answered /\ issued' = issued /\ excused' = excused
    BY DEF Serve
  <1> DEFINE g(r) == IF r = "ok" /\ Told(calls[i]) THEN data'[calls[i].of] ELSE {}
  <1>2. PICK r \in {"ok", "failed"}, hit \in BOOLEAN :
          /\ r = "ok" => hit
          /\ data' = IF hit /\ ~calls[i].loads THEN [data EXCEPT ![calls[i].of] = @ \cup {calls[i].no}] ELSE data
          /\ calls' = [calls EXCEPT ![i].answer = r, ![i].got = g(r)]
    BY DEF Serve
  <1> DEFINE c == [calls[i] EXCEPT !.answer = r, !.got = g(r)]
  <1>3. /\ calls \in Seq(CallRecord) /\ data \in [Keys -> SUBSET Nat]
        /\ Len(calls) \in Nat /\ calls[i] \in CallRecord
    <2>1. calls \in Seq(CallRecord) /\ data \in [Keys -> SUBSET Nat]  BY DEF TypeOK
    <2>2. QED  BY <1>1, <2>1, LenProperties, ElementOfSeq
  <1>4. calls[i].of \in Keys /\ calls[i].no \in Nat  BY <1>3 DEF CallRecord
  <1>5. /\ data' \in [Keys -> SUBSET Nat]
        /\ \A k \in Keys : data[k] \subseteq data'[k]
        /\ r = "ok" /\ ~calls[i].loads => calls[i].no \in data'[calls[i].of]
    BY <1>2, <1>3, <1>4
  <1>6. g(r) \in SUBSET Nat  BY <1>4, <1>5
  <1>7. /\ r = "ok" /\ Told(calls[i]) => g(r) = data'[calls[i].of]
        /\ calls' = [calls EXCEPT ![i] = c]
    <2>1. r = "ok" /\ Told(calls[i]) => g(r) = data'[calls[i].of]  OBVIOUS
    <2> HIDE DEF g
    <2>2. [calls EXCEPT ![i].answer = r, ![i].got = g(r)] = [calls EXCEPT ![i] = c]
      BY <1>1, <1>3
    <2>3. QED  BY <1>2, <2>1, <2>2
  <1> DEFINE gr == g(r)
  <1> HIDE DEF g
  <1>8. c \in CallRecord /\ Unserved(c, calls[i]) /\ c.answer = r /\ c.got = gr
    <2> HIDE DEF gr
    <2>1. gr \in SUBSET Nat  BY <1>6 DEF gr
    <2>2. c = [calls[i] EXCEPT !.answer = r, !.got = gr]  BY DEF gr
    <2>3. QED  BY <1>2, <1>3, <2>1, <2>2 DEF CallRecord, Unserved
  <1>9. r = "ok" /\ Told(calls[i]) => c.got = data'[calls[i].of]  BY <1>7, <1>8
  <1> HIDE DEF c, gr
  <1>10. /\ calls' \in Seq(CallRecord) /\ Len(calls') = Len(calls)
         /\ \A j \in 1..Len(calls) : calls'[j] = IF j = i THEN c ELSE calls[j]
    BY <1>1, <1>3, <1>7, <1>8, ExceptSeq
  <1>11. calls'[i] = c /\ \A j \in 1..Len(calls) : j # i => calls'[j] = calls[j]  BY <1>1, <1>10
  <1>12. \A j \in 1..Len(calls) : Unserved(calls'[j], calls[j])
    BY <1>8, <1>11 DEF Unserved
  <1>13. \A j \in 1..Len(calls) :
           /\ Told(calls'[j]) <=> Told(calls[j])
           /\ Active(calls'[j]) <=> Active(calls[j])
           /\ Fresh(calls'[j]) <=> Fresh(calls[j])
           /\ calls'[j].of = calls[j].of /\ calls'[j].lowers = calls[j].lowers
           /\ calls'[j].loads = calls[j].loads /\ calls'[j].gone = calls[j].gone
    BY <1>12 DEF Unserved, Told, Active, Fresh
  <1>14. \A j \in 1..Len(calls) : calls[j].of \in Keys
    <2>1. \A j \in 1..Len(calls) : calls[j] \in CallRecord  BY <1>3, ElementOfSeq
    <2>2. QED  BY <2>1 DEF CallRecord
  <1>15. \A j \in 1..Len(calls) : \A n : Told(calls[j]) /\ Knows(calls[j], n, data) => Knows(calls'[j], n, data')
    <2>1. \A n : Told(calls[i]) /\ Knows(calls[i], n, data) => Knows(c, n, data')
      BY <1>1, <1>2, <1>4, <1>5, <1>8, <1>9 DEF Knows
    <2>2. \A j \in 1..Len(calls) : \A n : Knows(calls[j], n, data) => Knows(calls[j], n, data')
      BY <1>5, <1>14 DEF Knows
    <2>3. QED  BY <1>11, <2>1, <2>2
  <1>16. \A j \in 1..Len(calls) : \A k, n : Brings(calls[j], k, n, data) => Brings(calls'[j], k, n, data')
    BY <1>12, <1>13, <1>15 DEF Brings, Unserved
  <1>17. CallsKnown(calls', data')
    <2> SUFFICES ASSUME NEW j \in 1..Len(calls) PROVE Known(calls'[j]) /\ Served(calls'[j], data')
      BY <1>10 DEF CallsKnown
    <2>1. Known(calls[j]) /\ Served(calls[j], data)  BY DEF Consistent, CallsKnown
    <2>2. Known(calls'[j])  BY <1>12, <2>1 DEF Known, LoadOf, CommandOf, Unserved
    <2>3. CASE j = i
      <3>1. Told(c) <=> Told(calls[i])  BY <1>11, <1>13, <2>3
      <3>2. Served(c, data')
        BY <1>5, <1>8, <1>9, <3>1 DEF Served, Unserved
      <3>3. QED  BY <1>11, <2>2, <2>3, <3>2
    <2>4. CASE j # i
      <3>1. Served(calls[j], data')  BY <1>5, <1>14, <2>1 DEF Served
      <3>2. QED  BY <1>11, <2>2, <2>4, <3>1
    <2>5. QED  BY <2>3, <2>4
  <1>18. TypeOK'  BY <1>1, <1>5, <1>10 DEF TypeOK
  <1>19. Consistent'
    <2>1. \A o \in Keys : answered'[o] \subseteq data'[o]  BY <1>1, <1>5 DEF Consistent
    <2>2. ~Keyed => sel' = First /\ (shown' # Nothing => shown'.of = First)  BY <1>1 DEF Consistent
    <2>3. ~here' => shown' = Nothing /\ \A j \in 1..Len(calls') : calls'[j].gone
      BY <1>1, <1>10, <1>13 DEF Consistent
    <2>4. issued' = 0 => \A j \in 1..Len(calls') : calls'[j].loads
      BY <1>1, <1>10, <1>13 DEF Consistent
    <2>5. QED  BY <1>1, <1>17, <2>1, <2>2, <2>3, <2>4, SameSlot
  <1>20. ASSUME FlagsInv PROVE FlagsInv'
    <2>1. LowerTheirs(calls')  BY <1>10, <1>12, <1>20 DEF FlagsInv, LowerTheirs, Unserved
    <2>2. HaveCalls(calls', up)  BY <1>10, <1>13, <1>20 DEF FlagsInv, HaveCalls
    <2>3. AreSingle(calls', up)  BY <1>10, <1>13, <1>20 DEF FlagsInv, AreSingle
    <2>4. QED  BY <1>1, <2>1, <2>2, <2>3, SameSlot
  <1>21. ASSUME OwnInv PROVE OwnInv'
    <2>1. CallsTell(calls', answered, data')
      <3> SUFFICES ASSUME NEW j \in 1..Len(calls), Fresh(calls'[j]), NEW n \in answered[calls[j].of],
                          ~Knows(calls'[j], n, data')
                   PROVE  \E m \in 1..Len(calls) : m > j /\ Brings(calls'[m], calls[j].of, n, data')
        BY <1>10, <1>13 DEF CallsTell
      <3>1. Fresh(calls[j]) /\ Told(calls[j])  BY <1>13 DEF Fresh
      <3>2. ~Knows(calls[j], n, data)  BY <1>15, <3>1
      <3>3. \E m \in 1..Len(calls) : m > j /\ Brings(calls[m], calls[j].of, n, data)
        BY <1>21, <3>1, <3>2 DEF OwnInv, CallsTell
      <3>4. QED  BY <1>16, <3>3
    <2>2. \A v : Tells(v, calls, answered, data) => Tells(v, calls', answered, data')
      BY <1>10, <1>16 DEF Tells
    <2>3. shown # Nothing /\ ~excused => Tells(shown, calls, answered, data)  BY <1>21 DEF OwnInv
    <2>4. QED  BY <1>1, <2>1, <2>2, <2>3, SameSlot
  <1>22. ASSUME SelInv PROVE SelInv'
    <2>1. ~Stays' => ~Stays  BY <1>1, StaysOn
    <2>2. \A j \in 1..Len(calls) : \A k : Follows(calls[j], k) => Follows(calls'[j], k)
      BY <1>12, <1>13 DEF Follows, Unserved
    <2>3. CallsFollow(calls, sel) => CallsFollow(calls', sel)
      BY <1>10, <1>13, <2>2 DEF CallsFollow
    <2>4. IsFollowed(calls, sel) => IsFollowed(calls', sel)  BY <1>10, <2>2 DEF IsFollowed
    <2>5. QED  BY <1>1, <1>22, <2>1, <2>3, <2>4, SameSlot DEF SelInv
  <1>23. QED  BY <1>18, <1>19, <1>20, <1>21, <1>22 DEF Keeps
\* The answer that a guard drops changes nothing; nor does that of a command that
\* failed, or whose page is gone, but for its flag.
LEMMA QuietAnswerStep ==
  ASSUME TypeOK, Consistent, NEW i \in 1..Len(calls),
         AnswerDropped(i, calls[i]) \/ CommandEnds(i, calls[i])
  PROVE  Keeps
  <1> DEFINE r == RemoveAt(calls, i)
  <1>1. /\ calls' = r /\ (~calls[i].loads \/ calls[i].dropped)
        /\ up' = up \/ up' = up \ calls[i].lowers
        /\ Active(calls[i]) => up' = up \ calls[i].lowers
        /\ page' = page /\ slot' = slot /\ here' = here /\ sel' = sel /\ shown' = shown
        /\ data' = data /\ answered' = answered /\ issued' = issued /\ excused' = excused
    BY DEF AnswerDropped, CommandEnds, Active
  <1>2. calls \in Seq(CallRecord)  BY DEF TypeOK
  <1>3. Known(calls[i])  BY DEF Consistent, CallsKnown
  <1>4. ~Active(calls[i]) => up' = up
    <2>1. calls[i].dropped => calls[i].loads  BY <1>3 DEF Known, CommandOf
    <2>2. calls[i].loads \/ calls[i].gone => up' = up  BY DEF AnswerDropped, CommandEnds
    <2>3. QED  BY <2>1, <2>2 DEF Active
  <1>5. /\ r \in Seq(CallRecord)
        /\ \A d : CallsKnown(calls, d) => CallsKnown(r, d)
        /\ LowerTheirs(calls) => LowerTheirs(r)
        /\ \A u, v : HaveCalls(calls, u) /\ v \subseteq u /\ (Active(calls[i]) => v \cap calls[i].lowers = {})
                       => HaveCalls(r, v)
        /\ \A u, v : AreSingle(calls, u) /\ (Active(calls[i]) => u \ calls[i].lowers \subseteq v)
                       /\ (~Active(calls[i]) => u \subseteq v) => AreSingle(r, v)
    BY <1>2, RemoveKeeps
  <1>6. /\ \A a, d : CallsTell(calls, a, d) => CallsTell(r, a, d)
        /\ \A k : CallsFollow(calls, k) => CallsFollow(r, k)
    BY <1>1, <1>2, RemoveTells
  <1>7. /\ \A v, a, d : Tells(v, calls, a, d) => Tells(v, r, a, d)
        /\ \A k : IsFollowed(calls, k) => IsFollowed(r, k)
    BY <1>1, <1>2, RemoveIdle
  <1>8. \A j \in 1..Len(r) : \E m \in 1..Len(calls) : r[j] = calls[m]
    BY <1>2, RemoveIndex
  <1> HIDE DEF r
  <1>9. TypeOK'  BY <1>1, <1>5 DEF TypeOK
  <1>10. Consistent'
    <2>1. CallsKnown(calls', data')  BY <1>1, <1>5 DEF Consistent
    <2>2. \A o \in Keys : answered'[o] \subseteq data'[o]  BY <1>1 DEF Consistent
    <2>3. ~Keyed => sel' = First /\ (shown' # Nothing => shown'.of = First)  BY <1>1 DEF Consistent
    <2>4. ~here' => shown' = Nothing /\ \A j \in 1..Len(calls') : calls'[j].gone
      BY <1>1, <1>8 DEF Consistent
    <2>5. issued' = 0 => \A j \in 1..Len(calls') : calls'[j].loads  BY <1>1, <1>8 DEF Consistent
    <2>6. QED  BY <1>1, <2>1, <2>2, <2>3, <2>4, <2>5, SameSlot
  <1>11. ASSUME FlagsInv PROVE FlagsInv'
    <2>1. LowerTheirs(calls')  BY <1>1, <1>5, <1>11 DEF FlagsInv
    <2>2. HaveCalls(calls', up')
      <3>1. up' \subseteq up /\ (Active(calls[i]) => up' \cap calls[i].lowers = {})  BY <1>1
      <3>2. QED  BY <1>1, <1>5, <1>11, <3>1 DEF FlagsInv
    <2>3. AreSingle(calls', up')
      <3>1. /\ Active(calls[i]) => up \ calls[i].lowers \subseteq up'
            /\ ~Active(calls[i]) => up \subseteq up'
        BY <1>1, <1>4
      <3>2. QED  BY <1>1, <1>5, <1>11, <3>1 DEF FlagsInv
    <2>4. QED  BY <1>1, <2>1, <2>2, <2>3, SameSlot
  <1>12. ASSUME OwnInv PROVE OwnInv'
    BY <1>1, <1>6, <1>7, <1>12, SameSlot DEF OwnInv
  <1>13. ASSUME SelInv PROVE SelInv'
    <2>1. ~Stays' => ~Stays  BY <1>1, StaysOn
    <2>2. QED  BY <1>1, <1>6, <1>7, <1>13, <2>1, SameSlot DEF SelInv
  <1>14. QED  BY <1>9, <1>10, <1>11, <1>12, <1>13 DEF Keeps

\* The answer of a load is shown, or a failure; what was asked before it is late.
LEMMA AnswerLoadStep ==
  ASSUME TypeOK, Consistent, NEW i \in 1..Len(calls), calls[i].answer # "sent", AnswerLoad(i, calls[i])
  PROVE  Keeps
  <1> DEFINE c == calls[i]
             q == Overtaken(calls, i)
             r == RemoveAt(q, i)
  <1>1. /\ c.loads /\ ~c.dropped /\ Told(c) /\ calls' = r /\ up' = up \ c.lowers
        /\ \/ c.answer = "ok" /\ shown' = [of |-> c.of, data |-> c.got] /\ excused' = c.late
           \/ c.answer # "ok" /\ (shown' = Nothing \/ shown' = shown) /\ excused' = TRUE
        /\ page' = page /\ slot' = slot /\ here' = here /\ sel' = sel
        /\ data' = data /\ answered' = answered /\ issued' = issued
    BY DEF AnswerLoad, Shows
  <1>2. calls \in Seq(CallRecord) /\ Len(calls) \in Nat /\ i \in Int /\ c \in CallRecord
    <2>1. calls \in Seq(CallRecord)  BY DEF TypeOK
    <2>2. Len(calls) \in Nat  BY <2>1, LenProperties
    <2>3. QED  BY <2>1, <2>2, ElementOfSeq
  <1>3. Known(c) /\ ~c.gone /\ Active(c) /\ here
    <2>1. Known(c)  BY DEF Consistent, CallsKnown
    <2>2. ~c.gone  BY <1>1, <2>1 DEF Known, LoadOf
    <2>3. QED  BY <1>1, <2>1, <2>2 DEF Active, Consistent
  <1>4. /\ q \in Seq(CallRecord) /\ Len(q) = Len(calls)
        /\ \A j \in 1..Len(calls) :
             /\ Like(q[j], calls[j]) /\ q[j].dropped = calls[j].dropped /\ q[j].gone = calls[j].gone
             /\ j < i /\ Told(calls[j]) => q[j].late
    BY <1>2, OvertakenFacts
  <1>5. /\ \A d : CallsKnown(calls, d) => CallsKnown(q, d)
        /\ LowerTheirs(calls) => LowerTheirs(q)
        /\ \A u : HaveCalls(calls, u) => HaveCalls(q, u)
        /\ \A u : AreSingle(calls, u) => AreSingle(q, u)
        /\ \A a, d : CallsTell(calls, a, d) => CallsTell(q, a, d)
        /\ \A k : CallsFollow(calls, k) => CallsFollow(q, k)
    BY <1>2, OvertakenKeeps
  <1>6. i \in 1..Len(q) /\ q[i].lowers = c.lowers /\ Active(q[i])
    BY <1>3, <1>4 DEF Like, Active
  <1>7. \A j \in 1..Len(q) : j < i => ~Fresh(q[j])
    BY <1>4, LikeTold DEF Fresh
  <1> HIDE DEF q
  <1>8. /\ r \in Seq(CallRecord)
        /\ \A d : CallsKnown(q, d) => CallsKnown(r, d)
        /\ LowerTheirs(q) => LowerTheirs(r)
        /\ \A u, v : HaveCalls(q, u) /\ v \subseteq u /\ (Active(q[i]) => v \cap q[i].lowers = {})
                       => HaveCalls(r, v)
        /\ \A u, v : AreSingle(q, u) /\ (Active(q[i]) => u \ q[i].lowers \subseteq v)
                       /\ (~Active(q[i]) => u \subseteq v) => AreSingle(r, v)
    BY <1>4, <1>6, RemoveKeeps
  <1>9. /\ \A a, d : CallsTell(q, a, d) => CallsTell(r, a, d)
        /\ \A k : CallsFollow(q, k) => CallsFollow(r, k)
    BY <1>4, <1>6, <1>7, RemoveTells
  <1>10. /\ \A j \in 1..Len(r) : \E m \in 1..Len(q) : r[j] = q[m]
         /\ \A m \in 1..Len(q) : m # i => \E j \in 1..Len(r) : r[j] = q[m]
    BY <1>4, <1>6, RemoveIndex
  <1>11. \A m \in 1..Len(calls) : m > i =>
           \E j \in 1..Len(r) : Like(r[j], calls[m]) /\ r[j].dropped = calls[m].dropped
    <2> SUFFICES ASSUME NEW m \in 1..Len(calls), m > i
                 PROVE  \E j \in 1..Len(r) : Like(r[j], calls[m]) /\ r[j].dropped = calls[m].dropped
      OBVIOUS
    <2>1. m # i  BY <1>2
    <2>2. PICK j \in 1..Len(r) : r[j] = q[m]  BY <1>4, <1>10, <2>1
    <2>3. QED  BY <1>4, <2>2
  <1> HIDE DEF r
  <1>12. TypeOK'
    <2>1. c.of \in Keys /\ c.got \in SUBSET Nat /\ c.late \in BOOLEAN  BY <1>2 DEF CallRecord
    <2>2. shown' \in [of : Keys, data : SUBSET Nat] \cup {Nothing}  BY <1>1, <2>1 DEF TypeOK
    <2>3. excused' \in BOOLEAN  BY <1>1, <2>1
    <2>4. QED  BY <1>1, <1>8, <2>2, <2>3 DEF TypeOK
  <1>13. Consistent'
    <2>1. CallsKnown(calls', data')  BY <1>1, <1>5, <1>8 DEF Consistent
    <2>2. \A o \in Keys : answered'[o] \subseteq data'[o]  BY <1>1 DEF Consistent
    <2>3. ~Keyed => sel' = First /\ (shown' # Nothing => shown'.of = First)
      BY <1>1, <1>3 DEF Consistent, Known
    <2>4. issued' = 0 => \A j \in 1..Len(calls') : calls'[j].loads
      BY <1>1, <1>4, <1>10 DEF Consistent, Like
    <2>5. QED  BY <1>1, <1>3, <2>1, <2>2, <2>3, <2>4, SameSlot
  <1>14. ASSUME FlagsInv PROVE FlagsInv'
    <2>1. LowerTheirs(calls')  BY <1>1, <1>5, <1>8, <1>14 DEF FlagsInv
    <2>2. HaveCalls(calls', up')
      <3>1. up' \subseteq up /\ up' \cap q[i].lowers = {}  BY <1>1, <1>6
      <3>2. QED  BY <1>1, <1>5, <1>8, <1>14, <3>1 DEF FlagsInv
    <2>3. AreSingle(calls', up')
      <3>1. up \ q[i].lowers \subseteq up'  BY <1>1, <1>6
      <3>2. QED  BY <1>1, <1>5, <1>6, <1>8, <1>14, <3>1 DEF FlagsInv
    <2>4. QED  BY <1>1, <2>1, <2>2, <2>3, SameSlot
  <1>15. ~excused' => Fresh(c) /\ c.answer = "ok" /\ shown' = [of |-> c.of, data |-> c.got]
    BY <1>1, <1>3 DEF Fresh
  <1>16. ASSUME OwnInv PROVE OwnInv'
    <2>1. CallsTell(calls', answered', data')  BY <1>1, <1>5, <1>8, <1>9, <1>16 DEF OwnInv
    <2>2. ASSUME ~excused' PROVE Tells(shown', calls', answered', data')
      <3>1. shown'.of = c.of /\ shown'.data = c.got  BY <1>15, <2>2
      <3>2. ASSUME NEW n \in answered[c.of], n \notin c.got
            PROVE  \E j \in 1..Len(r) : Brings(r[j], c.of, n, data)
        <4>1. ~Knows(c, n, data)  BY <1>15, <2>2, <3>2 DEF Knows
        <4>2. PICK m \in 1..Len(calls) : m > i /\ Brings(calls[m], c.of, n, data)
          BY <1>15, <1>16, <2>2, <3>2, <4>1 DEF OwnInv, CallsTell
        <4>3. PICK j \in 1..Len(r) : Like(r[j], calls[m]) /\ r[j].dropped = calls[m].dropped
          BY <1>11, <4>2
        <4>4. Brings(r[j], c.of, n, data)  BY <4>2, <4>3, LikeTold DEF Brings, Like, Knows
        <4>5. QED  BY <4>4
      <3>3. QED  BY <1>1, <3>1, <3>2 DEF Tells
    <2>3. QED  BY <1>1, <2>1, <2>2, SameSlot
  <1>17. ASSUME SelInv PROVE SelInv'
    <2>1. ~Stays' => ~Stays  BY <1>1, StaysOn
    <2>2. ~Stays => CallsFollow(calls', sel')  BY <1>1, <1>5, <1>9, <1>17 DEF SelInv
    <2>3. ASSUME ~Stays, ~excused', shown'.of # sel' PROVE IsFollowed(calls', sel')
      <3>1. Fresh(c) /\ c.loads /\ c.of # sel  BY <1>1, <1>15, <2>3
      <3>2. PICK m \in 1..Len(calls) : m > i /\ Follows(calls[m], sel)
        BY <1>17, <2>3, <3>1 DEF SelInv, CallsFollow
      <3>3. PICK j \in 1..Len(r) : Like(r[j], calls[m]) /\ r[j].dropped = calls[m].dropped
        BY <1>11, <3>2
      <3>4. Follows(r[j], sel)  BY <3>2, <3>3, LikeTold DEF Follows, Like
      <3>5. QED  BY <1>1, <3>4 DEF IsFollowed
    <2>4. QED  BY <1>1, <2>1, <2>2, <2>3, SameSlot
  <1>18. QED  BY <1>12, <1>13, <1>14, <1>16, <1>17 DEF Keeps

\* A load of other slots was answered: those that it runs start, and nothing is shown.
LEMMA AnswerLeadStep ==
  ASSUME TypeOK, Consistent, NEW i \in 1..Len(calls), AnswerLead(i, calls[i])
  PROVE  Keeps
  <1> DEFINE c == calls[i]
             r == RemoveAt(calls, i)
             L == Reloads(c)
             s == Started(r, L, c.of, "call", {})
  <1>1. /\ c.loads /\ ~c.dropped /\ ~Told(c)
        /\ \/ calls' = s /\ up' = (up \cup Spinning(L, "call")) \ c.lowers /\ excused' = excused
           \/ calls' = r /\ up' = up \ c.lowers /\ excused' = TRUE
        /\ page' = page /\ slot' = slot /\ here' = here /\ sel' = sel /\ shown' = shown
        /\ data' = data /\ answered' = answered /\ issued' = issued
    BY DEF AnswerLead
  <1>2. calls \in Seq(CallRecord) /\ c \in CallRecord
    <2>1. calls \in Seq(CallRecord)  BY DEF TypeOK
    <2>2. QED  BY <2>1, ElementOfSeq
  <1>3. /\ Known(c) /\ Active(c) /\ here
        /\ c.of \in Keys /\ (~Keyed => c.of = First)
    <2>1. Known(c)  BY DEF Consistent, CallsKnown
    <2>2. ~c.gone  BY <1>1, <2>1 DEF Known, LoadOf
    <2>3. QED  BY <1>1, <1>2, <2>1, <2>2 DEF Active, Consistent, Known, CallRecord
  <1>4. /\ "call" \in Ways /\ {} \in SUBSET (Word \ {None})
        /\ L \in SUBSET LOADS[page][slot]["call"]
    BY DEF Ways, Reloads
  <1>5. /\ r \in Seq(CallRecord)
        /\ \A d : CallsKnown(calls, d) => CallsKnown(r, d)
        /\ LowerTheirs(calls) => LowerTheirs(r)
        /\ \A u, v : HaveCalls(calls, u) /\ v \subseteq u /\ (Active(calls[i]) => v \cap calls[i].lowers = {})
                       => HaveCalls(r, v)
        /\ \A u, v : AreSingle(calls, u) /\ (Active(calls[i]) => u \ calls[i].lowers \subseteq v)
                       /\ (~Active(calls[i]) => u \subseteq v) => AreSingle(r, v)
    BY <1>2, RemoveKeeps
  <1>6. /\ \A a, d : CallsTell(calls, a, d) => CallsTell(r, a, d)
        /\ \A k : CallsFollow(calls, k) => CallsFollow(r, k)
    BY <1>1, <1>2, RemoveTells
  <1>7. \A v, a, d : Tells(v, calls, a, d) => Tells(v, r, a, d)
    BY <1>1, <1>2, RemoveIdle
  <1>8. \A j \in 1..Len(r) : \E m \in 1..Len(calls) : r[j] = calls[m]
    BY <1>2, RemoveIndex
  <1> HIDE DEF r, L
  <1>9. /\ s \in Seq(CallRecord)
        /\ \A d : CallsKnown(r, d) => CallsKnown(s, d)
        /\ (\A j \in 1..Len(r) : r[j].loads) => \A j \in 1..Len(s) : s[j].loads
        /\ LowerTheirs(r) => LowerTheirs(s)
        /\ \A u, d : HaveCalls(r, u) /\ LowerTheirs(r) /\ CallsKnown(r, d) =>
             HaveCalls(s, u \cup Spinning(L, "call"))
        /\ \A u, v : AreSingle(r, u) /\ u \subseteq v /\ OnceIsGuarded(ThePage, slot)
                       /\ TakesOver(r, L, {}, v) => AreSingle(s, v)
    BY <1>3, <1>4, <1>5, StartedKeeps
  <1>10. /\ \A a, d : CallsTell(r, a, d) /\ a[c.of] \subseteq d[c.of] => CallsTell(s, a, d)
         /\ \A v, a, d : Tells(v, r, a, d) => Tells(v, s, a, d)
    BY <1>3, <1>4, <1>5, StartedTells
  <1> HIDE DEF s
  <1>11. CallsKnown(calls', data')  BY <1>1, <1>5, <1>9 DEF Consistent
  <1>12. TypeOK'
    <2>1. Spinning(L, "call") \subseteq Word  BY <1>4, SpinningFacts
    <2>2. QED  BY <1>1, <1>5, <1>9, <2>1 DEF TypeOK
  <1>13. Consistent'
    <2>1. \A o \in Keys : answered'[o] \subseteq data'[o]  BY <1>1 DEF Consistent
    <2>2. ~Keyed => sel' = First /\ (shown' # Nothing => shown'.of = First)  BY <1>1 DEF Consistent
    <2>3. issued' = 0 => \A j \in 1..Len(calls') : calls'[j].loads
      BY <1>1, <1>8, <1>9 DEF Consistent
    <2>4. QED  BY <1>1, <1>3, <1>11, <2>1, <2>2, <2>3, SameSlot
  <1>14. ASSUME Guarded, FlagsInv PROVE FlagsInv'
    <2>1. LowerTheirs(r) /\ LowerTheirs(calls')  BY <1>1, <1>5, <1>9, <1>14 DEF FlagsInv
    <2>2. HaveCalls(calls', up')
      <3>1. HaveCalls(r, up \ c.lowers)  BY <1>5, <1>14 DEF FlagsInv
      <3>2. CallsKnown(r, data)  BY <1>5 DEF Consistent
      <3>3. HaveCalls(s, (up \ c.lowers) \cup Spinning(L, "call"))  BY <1>9, <2>1, <3>1, <3>2
      <3>4. (up \cup Spinning(L, "call")) \ c.lowers \subseteq (up \ c.lowers) \cup Spinning(L, "call")  OBVIOUS
      <3>5. QED  BY <1>1, <3>1, <3>3, <3>4 DEF HaveCalls
    <2>3. AreSingle(calls', up')
      <3>1. AreSingle(r, up \ c.lowers) /\ up \ c.lowers \subseteq up'  BY <1>1, <1>3, <1>5, <1>14 DEF FlagsInv
      <3>2. TakesOver(r, L, {}, up')  BY DEF TakesOver
      <3>3. AreSingle(s, up')  BY <1>9, <1>14, <3>1, <3>2 DEF Guarded
      <3>4. calls' = r => up' = up \ c.lowers \/ calls' = s  BY <1>1
      <3>5. QED  BY <1>1, <3>1, <3>3, <3>4
    <2>4. QED  BY <1>1, <2>1, <2>2, <2>3, SameSlot
  <1>15. ASSUME OwnInv PROVE OwnInv'
    <2>1. answered[c.of] \subseteq data[c.of]  BY <1>3 DEF Consistent
    <2>2. CallsTell(r, answered, data) /\ CallsTell(s, answered, data)
      BY <1>6, <1>10, <1>15, <2>1 DEF OwnInv
    <2>3. shown # Nothing /\ ~excused => Tells(shown, r, answered, data) /\ Tells(shown, s, answered, data)
      BY <1>7, <1>10, <1>15 DEF OwnInv
    <2>4. QED  BY <1>1, <2>2, <2>3, SameSlot
  <1>16. ASSUME Following PROVE SelInv'
    <2>1. CASE ~Keyed
      <3>1. CallsFollow(calls', First)  BY <1>11, <2>1, UnkeyedFollows
      <3>2. sel' = First /\ (shown' # Nothing => shown'.of = First)  BY <1>1, <2>1 DEF Consistent
      <3>3. QED  BY <1>1, <3>1, <3>2, SameSlot
    <2>2. CASE Keyed
      <3>1. ASSUME ~Stays PROVE FALSE
        <4>1. PICK l \in Loads : LoadOf(c, l)  BY <1>1, <1>3 DEF Known
        <4>2. slot \in l.sets  BY <1>16, <2>2, <3>1, LoadsFollow
        <4>3. slot \in c.h.sets  BY <4>1, <4>2, PageFacts, DoesFacts DEF LoadOf
        <4>4. QED  BY <1>1, <4>3 DEF Told
      <3>2. Stays'  BY <1>1, <3>1, StaysOn
      <3>3. QED  BY <1>1, <3>2, SameSlot
    <2>3. QED  BY <2>1, <2>2
  <1>17. QED  BY <1>12, <1>13, <1>14, <1>15, <1>16 DEF Keeps

\* What is told of a command whose answer came.
LEMMA AnsweredFacts ==
  ASSUME TypeOK, Consistent, NEW i \in 1..Len(calls), ~calls[i].loads, calls[i].answer = "ok",
         answered' = [answered EXCEPT ![calls[i].of] = @ \cup {calls[i].no}]
  PROVE  LET c == calls[i]
         IN  /\ c \in CallRecord /\ Known(c) /\ Served(c, data)
             /\ answered' \in [Keys -> SUBSET Nat]
             /\ \A k \in Keys : answered'[k] \subseteq data[k]
             /\ answered'[c.of] = answered[c.of] \cup {c.no}
             /\ OnlyAt(answered, answered', c.of)
  <1> DEFINE c == calls[i]
  <1>1. c \in CallRecord
    <2>1. calls \in Seq(CallRecord)  BY DEF TypeOK
    <2>2. QED  BY <2>1, ElementOfSeq
  <1>2. Known(c) /\ Served(c, data)  BY DEF Consistent, CallsKnown
  <1>3. c.of \in Keys /\ c.no \in Nat  BY <1>1 DEF CallRecord
  <1>4. c.no \in data[c.of]  BY <1>2 DEF Served
  <1> HIDE DEF c
  <1>5. answered' = [answered EXCEPT ![c.of] = @ \cup {c.no}]  BY DEF c
  <1>6. answered \in [Keys -> SUBSET Nat]  BY DEF TypeOK
  <1>7. /\ answered' \in [Keys -> SUBSET Nat]
        /\ answered'[c.of] = answered[c.of] \cup {c.no}
        /\ \A k \in Keys : k # c.of => answered'[k] = answered[k]
    <2>1. answered[c.of] \cup {c.no} \in SUBSET Nat  BY <1>3, <1>6
    <2>2. answered' = [answered EXCEPT ![c.of] = answered[c.of] \cup {c.no}]  BY <1>5
    <2>3. answered' \in [Keys -> SUBSET Nat]  BY <1>6, <2>1, <2>2
    <2>4. QED  BY <1>3, <1>6, <2>2, <2>3
  <1>8. \A k \in Keys : answered'[k] \subseteq data[k]  BY <1>4, <1>7 DEF Consistent
  <1>9. QED  BY <1>1, <1>2, <1>7, <1>8 DEF c, OnlyAt

\* A command was done: its handler shows what it brought about, or asks for it.
LEMMA CommandSucceedsStep ==
  ASSUME TypeOK, Consistent, NEW i \in 1..Len(calls), CommandSucceeds(i, calls[i])
  PROVE  Keeps
  <1> DEFINE c == calls[i]
  <1>1. /\ ~c.loads /\ ~c.gone /\ c.answer = "ok"
        /\ answered' = [answered EXCEPT ![c.of] = @ \cup {c.no}]
        /\ page' = page /\ slot' = slot /\ sel' = sel /\ data' = data /\ issued' = issued
    BY DEF CommandSucceeds
  <1>2. /\ c \in CallRecord /\ Known(c) /\ Served(c, data)
        /\ answered' \in [Keys -> SUBSET Nat]
        /\ \A k \in Keys : answered'[k] \subseteq data[k]
        /\ answered'[c.of] = answered[c.of] \cup {c.no}
        /\ OnlyAt(answered, answered', c.of)
    BY <1>1, AnsweredFacts
  <1>3. /\ c.of \in Keys /\ c.lowers \subseteq Word /\ None \notin c.lowers /\ c.late \in BOOLEAN
        /\ c.got \in SUBSET Nat /\ c.no \in Nat
        /\ ~Keyed => c.of = First
    BY <1>2 DEF CallRecord, Known
  <1>4. PICK x \in Commands : CommandOf(c, x)  BY <1>1, <1>2 DEF Known
  <1>5. /\ x \in CommandRecord /\ c.h = Does(x) /\ c.lowers = {x.flag} \ {None} /\ Active(c)
        /\ c.h.reloads = x.reloads /\ c.h.patches = x.patches /\ c.h.replaces = x.replaces
        /\ c.h.leaves = x.leaves /\ c.h.awaits = x.awaits
    BY <1>1, <1>4, PageFacts, DoesFacts DEF CommandOf, Active
  <1>6. /\ calls \in Seq(CallRecord) /\ Len(calls) \in Nat /\ Len(calls) + 1 \in Int
        /\ \A j \in 1..Len(calls) : j < Len(calls) + 1
    <2>1. calls \in Seq(CallRecord)  BY DEF TypeOK
    <2>2. Len(calls) \in Nat  BY <2>1, LenProperties
    <2>3. QED  BY <2>1, <2>2
  <1>7. here /\ issued # 0  BY <1>1 DEF Consistent
  <1>8. CASE c.h.leaves
    <2> DEFINE r == RemoveAt(calls, i)
    <2>1. Unmounts(r)  BY <1>8 DEF CommandSucceeds
    <2>2. r \in Seq(CallRecord) /\ CallsKnown(r, data)  BY <1>6, RemoveKeeps DEF Consistent
    <2> HIDE DEF r
    <2>3. QED  BY <1>1, <1>2, <1>7, <2>1, <2>2, UnmountStep
  <1>9. CASE ~c.h.leaves
    <2> DEFINE L == {l \in LOADS[page][slot]["call"] : l.name \in c.h.reloads}
               patched == slot \in c.h.patches
               said == slot \in c.h.replaces
               late == patched \/ said \/ Elsewhere(c)
               also == IF c.h.awaits THEN c.lowers ELSE {}
               o == IF late THEN Overtaken(calls, Len(calls) + 1) ELSE calls
               r == RemoveAt(o, i)
               s == Started(r, L, c.of, "call", also)
    <2>1. /\ \/ said /\ shown' = [of |-> c.of, data |-> c.got]
             \/ patched /\ shown # Nothing /\ shown' = [shown EXCEPT !.data = @ \cup {c.no}]
             \/ ~said /\ (patched => shown = Nothing) /\ shown' = shown
          /\ excused' = (excused \/ (said /\ (c.late \/ c.of # sel)) \/ Elsewhere(c))
          /\ calls' = s
          /\ up' = (up \cup Spinning(L, "call")) \ (IF c.h.awaits THEN {} ELSE c.lowers)
          /\ here' = here
      BY <1>9 DEF CommandSucceeds, Shows, Reloads
    <2>2. /\ "call" \in Ways /\ L \in SUBSET LOADS[page][slot]["call"] /\ also \in SUBSET (Word \ {None})
          /\ L = Called(ThePage, slot, x)
      <3>1. "call" \in Ways  BY DEF Ways
      <3>2. also \in SUBSET (Word \ {None})  BY <1>3
      <3>3. LOADS[page][slot]["call"] = {l \in Loads : "call" \in l.ways}  BY <3>1, PageFacts
      <3>4. L = Called(ThePage, slot, x)  BY <1>5, <3>3 DEF Called, Loads
      <3>5. QED  BY <3>1, <3>2, <3>4
    <2>3. /\ o \in Seq(CallRecord) /\ Len(o) = Len(calls)
          /\ \A j \in 1..Len(calls) :
               /\ Like(o[j], calls[j]) /\ o[j].dropped = calls[j].dropped /\ o[j].gone = calls[j].gone
               /\ late /\ Told(calls[j]) => o[j].late
      BY <1>6, OvertakenFacts DEF Like
    <2>4. /\ \A d : CallsKnown(calls, d) => CallsKnown(o, d)
          /\ LowerTheirs(calls) => LowerTheirs(o)
          /\ \A u : HaveCalls(calls, u) => HaveCalls(o, u)
          /\ \A u : AreSingle(calls, u) => AreSingle(o, u)
          /\ \A a, d : CallsTell(calls, a, d) => CallsTell(o, a, d)
          /\ \A v, a, d : Tells(v, calls, a, d) => Tells(v, o, a, d)
          /\ \A k : CallsFollow(calls, k) => CallsFollow(o, k)
          /\ \A k : IsFollowed(calls, k) => IsFollowed(o, k)
      BY <1>6, OvertakenKeeps
    <2>5. ~late => o = calls  OBVIOUS
    <2>6. i \in 1..Len(o) /\ ~o[i].loads /\ Active(o[i]) /\ o[i].lowers = c.lowers
      BY <1>1, <1>5, <2>3 DEF Like, Active
    <2> HIDE DEF o, L, also
    <2>7. /\ r \in Seq(CallRecord)
          /\ \A d : CallsKnown(o, d) => CallsKnown(r, d)
          /\ LowerTheirs(o) => LowerTheirs(r)
          /\ \A u, v : HaveCalls(o, u) /\ v \subseteq u /\ (Active(o[i]) => v \cap o[i].lowers = {})
                         => HaveCalls(r, v)
          /\ \A u, v : AreSingle(o, u) /\ (Active(o[i]) => u \ o[i].lowers \subseteq v)
                         /\ (~Active(o[i]) => u \subseteq v) => AreSingle(r, v)
      BY <2>3, <2>6, RemoveKeeps
    <2>8. /\ \A a, d : CallsTell(o, a, d) => CallsTell(r, a, d)
          /\ \A k : CallsFollow(o, k) => CallsFollow(r, k)
          /\ \A v, a, d : Tells(v, o, a, d) => Tells(v, r, a, d)
          /\ \A k : IsFollowed(o, k) => IsFollowed(r, k)
      BY <2>3, <2>6, RemoveTells, RemoveIdle
    <2>9. \A j \in 1..Len(r) : \E m \in 1..Len(o) : m # i /\ r[j] = o[m]
      BY <2>3, <2>6, RemoveIndex
    <2> HIDE DEF r
    <2>10. /\ s \in Seq(CallRecord)
           /\ \A d : CallsKnown(r, d) => CallsKnown(s, d)
           /\ also = {} /\ LowerTheirs(r) => LowerTheirs(s)
           /\ (\A l \in L : l.guard # "latest") /\ LowerTheirs(r) => LowerTheirs(s)
           /\ \A u, d : HaveCalls(r, u) /\ LowerTheirs(r) /\ CallsKnown(r, d) =>
                /\ HaveCalls(s, u \cup Spinning(L, "call"))
                /\ L # {} => HaveCalls(s, u \cup Spinning(L, "call") \cup also)
           /\ \A u, v : AreSingle(r, u) /\ u \subseteq v /\ OnceIsGuarded(ThePage, slot)
                          /\ TakesOver(r, L, also, v) => AreSingle(s, v)
      BY <1>3, <2>2, <2>7, StartedKeeps
    <2>11. /\ \A a, d : CallsTell(r, a, d) /\ a[c.of] \subseteq d[c.of] => CallsTell(s, a, d)
           /\ \A v, a, d : Tells(v, r, a, d) => Tells(v, s, a, d)
           /\ (\E l \in L : slot \in l.sets) /\ (\A l \in L : l.guard # "latest") =>
                \A a, b, d : CallsTell(r, a, d) /\ b[c.of] \subseteq d[c.of] /\ OnlyAt(a, b, c.of) =>
                  /\ CallsTell(s, b, d)
                  /\ \A v : v.of \in Keys /\ Tells(v, r, a, d) => Tells(v, s, b, d)
      BY <1>3, <2>2, <2>7, StartedTells
    <2>12. L = {} => /\ \A n : CallsFollow(r, n) => CallsFollow(s, n)
                     /\ \A n : IsFollowed(r, n) => IsFollowed(s, n)
      <3> HIDE DEF c
      <3>1. r \in Seq(CallRecord) /\ L \in SUBSET LOADS[page][slot]["call"]
            /\ also \in SUBSET (Word \ {None}) /\ c.of \in Keys
        BY <1>3, <2>2, <2>7
      <3>2. QED  BY ONLY TypeOK, <2>2, <3>1, StartedNothing
    <2> HIDE DEF s
    <2>13. CallsKnown(calls', data')  BY <1>1, <2>1, <2>4, <2>7, <2>10 DEF Consistent
    <2>14. TypeOK'
      <3>1. Spinning(L, "call") \subseteq Word  BY <2>2, SpinningFacts
      <3>2. shown' \in [of : Keys, data : SUBSET Nat] \cup {Nothing}
        BY <1>3, <2>1 DEF TypeOK
      <3>3. excused' \in BOOLEAN  BY <2>1
      <3>4. QED  BY <1>1, <1>2, <2>1, <2>10, <3>1, <3>2, <3>3 DEF TypeOK
    <2>15. shown # Nothing => shown.of \in Keys /\ shown \in [of : Keys, data : SUBSET Nat]
      BY DEF TypeOK
    <2>16. Consistent'
      <3>1. ~Keyed => sel' = First /\ (shown' # Nothing => shown'.of = First)
        BY <1>1, <1>3, <2>1, <2>15 DEF Consistent
      <3>2. QED  BY <1>1, <1>2, <1>7, <2>1, <2>13, <3>1, SameSlot
    <2>17. ASSUME Guarded, FlagsInv PROVE FlagsInv'
      <3>1. (c.h.awaits => L # {}) /\ \A l \in L : l.guard # "latest"
        BY <1>5, <1>9, <2>2, <2>17 DEF Guarded, FlagsAreLowered, Commands
      <3>2. LowerTheirs(r)  BY <2>4, <2>7, <2>17 DEF FlagsInv
      <3>3. LowerTheirs(calls')  BY <2>1, <2>10, <3>1, <3>2
      <3>4. HaveCalls(calls', up')
        <4>1. HaveCalls(r, up \ c.lowers)  BY <2>4, <2>6, <2>7, <2>17 DEF FlagsInv
        <4>2. CallsKnown(r, data)  BY <2>4, <2>7 DEF Consistent
        <4>3. CASE c.h.awaits
          <5>1. HaveCalls(s, (up \ c.lowers) \cup Spinning(L, "call") \cup also)
            BY <2>10, <3>1, <3>2, <4>1, <4>2, <4>3
          <5>2. up' \subseteq (up \ c.lowers) \cup Spinning(L, "call") \cup also
            BY <2>1, <4>3 DEF also
          <5>3. QED  BY <2>1, <5>1, <5>2 DEF HaveCalls
        <4>4. CASE ~c.h.awaits
          <5>1. HaveCalls(s, (up \ c.lowers) \cup Spinning(L, "call"))  BY <2>10, <3>2, <4>1, <4>2
          <5>2. up' \subseteq (up \ c.lowers) \cup Spinning(L, "call")  BY <2>1, <4>4
          <5>3. QED  BY <2>1, <5>1, <5>2 DEF HaveCalls
        <4>5. QED  BY <4>3, <4>4
      <3>5. AreSingle(calls', up')
        <4>1. AreSingle(calls, up) /\ AreSingle(o, up)  BY <2>4, <2>17 DEF FlagsInv
        <4>2. CASE c.h.awaits
          <5>1. AreSingle(r, up) /\ up \subseteq up'  BY <2>1, <2>6, <2>7, <4>1, <4>2
          <5>2. ASSUME NEW f \in also \cap OnceFlags(ThePage, slot)
                PROVE  /\ f \in up'
                       /\ \A j \in 1..Len(r) : ~(Active(r[j]) /\ f \in r[j].lowers)
                       /\ \A l, m \in L : l = m
            <6>1. f \in c.lowers /\ f = x.flag  BY <1>5, <4>2 DEF also
            <6>2. f \in up  BY <1>5, <4>1, <6>1 DEF AreSingle
            <6>3. \A j \in 1..Len(o) : Active(o[j]) /\ f \in o[j].lowers => i = j
              BY <2>6, <4>1, <6>1 DEF AreSingle
            <6>4. \A l, m \in L : l = m
              BY <1>5, <2>2, <2>17, <4>2, <6>1 DEF Guarded, OnceIsGuarded, Commands
            <6>5. QED  BY <2>9, <5>1, <6>2, <6>3, <6>4
          <5>3. TakesOver(r, L, also, up')  BY <5>2 DEF TakesOver
          <5>4. QED  BY <2>1, <2>10, <2>17, <5>1, <5>3 DEF Guarded
        <4>3. CASE ~c.h.awaits
          <5>1. AreSingle(r, up \ c.lowers) /\ up \ c.lowers \subseteq up'
            BY <2>1, <2>6, <2>7, <4>1, <4>3
          <5>2. TakesOver(r, L, also, up')  BY <4>3 DEF TakesOver, also
          <5>3. QED  BY <2>1, <2>10, <2>17, <5>1, <5>2 DEF Guarded
        <4>4. QED  BY <4>2, <4>3
      <3>6. QED  BY <1>1, <3>3, <3>4, <3>5, SameSlot
    <2>18. ASSUME Reporting, OwnInv PROVE OwnInv'
      <3>1. CallsTell(calls, answered, data) /\ answered'[c.of] \subseteq data[c.of]
        BY <1>2, <1>3, <2>18 DEF OwnInv
      <3>2. shown # Nothing /\ ~excused => Tells(shown, calls, answered, data)  BY <2>18 DEF OwnInv
      <3>3. \A v : Tells(v, calls, answered, data) => Tells(v, r, answered, data)  BY <2>4, <2>8
      <3>4. CASE late
        <4>1. \A j \in 1..Len(r) : ~Fresh(r[j])
          <5>1. \A m \in 1..Len(o) : ~Fresh(o[m])  BY <2>3, <3>4, LikeTold DEF Fresh
          <5>2. QED  BY <2>9, <5>1
        <4>2. CallsTell(r, answered', data)  BY <4>1 DEF CallsTell
        <4>3. CallsTell(s, answered', data)  BY <2>11, <3>1, <4>2
        <4>4. ASSUME NEW v, v.of \in Keys, c.no \in v.data, Tells(v, calls, answered, data)
              PROVE  Tells(v, s, answered', data)
          <5>1. Tells(v, s, answered, data)  BY <2>11, <3>3, <4>4
          <5>2. \A n \in answered'[v.of] : n \in answered[v.of] \/ n = c.no  BY <1>2, <4>4 DEF OnlyAt
          <5>3. QED  BY <4>4, <5>1, <5>2 DEF Tells
        <4>5. ASSUME shown' # Nothing, ~excused' PROVE Tells(shown', s, answered', data)
          <5>1. ~excused /\ ~Elsewhere(c) /\ (said => ~c.late)  BY <2>1, <4>5
          <5>2. CASE said /\ shown' = [of |-> c.of, data |-> c.got]
            <6>1. Fresh(c)  BY <1>1, <1>5, <5>1, <5>2 DEF Fresh, Told
            <6>2. c.no \in c.got  BY <1>1, <1>2, <6>1 DEF Served, Fresh
            <6>3. \A n \in answered[c.of] : n \in c.got \/ \E m \in 1..Len(calls) : Brings(calls[m], c.of, n, data)
              BY <1>1, <3>1, <6>1 DEF CallsTell, Knows
            <6>4. shown'.of = c.of /\ shown'.data = c.got  BY <5>2
            <6>5. Tells(shown', calls, answered, data)  BY <6>3, <6>4 DEF Tells
            <6>6. QED  BY <1>3, <4>4, <6>2, <6>4, <6>5
          <5>3. CASE patched /\ shown # Nothing /\ shown' = [shown EXCEPT !.data = @ \cup {c.no}]
            <6>1. shown'.of = shown.of /\ shown'.data = shown.data \cup {c.no} /\ shown.of \in Keys
              BY <2>15, <5>3
            <6>2. Tells(shown', calls, answered, data)  BY <3>2, <5>1, <5>3, <6>1 DEF Tells
            <6>3. QED  BY <4>4, <6>1, <6>2
          <5>4. CASE ~said /\ (patched => shown = Nothing) /\ shown' = shown
            BY <3>4, <4>5, <5>1, <5>4
          <5>5. QED  BY <2>1, <5>2, <5>3, <5>4
        <4>6. QED  BY <1>1, <2>1, <4>3, <4>5, SameSlot
      <3>5. CASE ~late
        <4>1. \E l \in L : slot \in l.sets
          <5>1. slot \notin x.patches \cup x.replaces /\ ~x.leaves  BY <1>5, <1>9, <3>5
          <5>2. ~Elsewhere(c)  BY <3>5
          <5>3. ~(x.reloads # {} /\ \A l \in LoadsOn(ThePage, slot) : l.name \notin x.reloads)
            BY <1>5, <5>2 DEF Elsewhere, LoadsOn, ThePage
          <5>4. QED  BY <2>2, <2>18, <5>1, <5>3 DEF Reporting, CommandsAreShown, Commands
        <4>2. \A l \in L : l.guard # "latest"
          BY <2>2, <2>18 DEF Reporting, FlagsAreLowered, Commands
        <4>3. CallsTell(r, answered, data)  BY <2>4, <2>8, <3>1
        <4>4. CallsTell(s, answered', data) /\ \A v : v.of \in Keys /\ Tells(v, r, answered, data) => Tells(v, s, answered', data)
          BY <1>2, <2>11, <3>1, <4>1, <4>2, <4>3
        <4>5. shown' = shown /\ (excused' <=> excused)  BY <2>1, <3>5
        <4>6. QED  BY <1>1, <2>1, <2>15, <3>2, <3>3, <4>4, <4>5, SameSlot
      <3>6. QED  BY <3>4, <3>5
    <2>19. ASSUME Following, SelInv PROVE SelInv'
      <3>1. CASE ~Keyed
        <4>1. CallsFollow(calls', First)  BY <2>13, <3>1, UnkeyedFollows
        <4>2. sel' = First /\ (shown' # Nothing => shown'.of = First)
          BY <1>1, <1>3, <2>1, <2>15, <3>1 DEF Consistent
        <4>3. QED  BY <1>1, <4>1, <4>2, SameSlot
      <3>2. CASE Keyed
        <4> SUFFICES ASSUME ~Stays'
                     PROVE  /\ CallsFollow(calls', sel')
                            /\ shown' # Nothing /\ ~excused' /\ shown'.of # sel' => IsFollowed(calls', sel')
          BY <1>1, SameSlot
        <4>1. ~Stays  BY <1>1, StaysOn
        <4>2. L = {}
          <5>1. ThePage.name = page  BY PageFacts
          <5>2. <<ThePage.name, slot>> \notin Staying \cup {<<"DataGrid", "rows">>}
            <6>1. issued > 0  BY <1>7 DEF TypeOK
            <6>2. QED  BY <4>1, <5>1, <6>1 DEF Stays, At, Staying
          <5>3. slot \in ThePage.keyed  BY <3>2 DEF Keyed, ThePage
          <5>4. QED  BY <1>5, <1>9, <2>2, <2>19, <5>2, <5>3 DEF Following, SelectionIsLoaded, Commands
        <4>3. CallsFollow(calls', sel')  BY <1>1, <2>1, <2>4, <2>8, <2>12, <2>19, <4>1, <4>2 DEF SelInv
        <4>4. ASSUME shown' # Nothing, ~excused', shown'.of # sel' PROVE IsFollowed(calls', sel')
          <5>1. shown # Nothing /\ ~excused /\ shown.of # sel
            <6>1. ~excused /\ (said => c.of = sel)  BY <2>1, <4>4
            <6>2. shown'.of # sel  BY <1>1, <4>4
            <6>3. CASE said /\ shown' = [of |-> c.of, data |-> c.got]  BY <6>1, <6>2, <6>3
            <6>4. CASE patched /\ shown # Nothing /\ shown' = [shown EXCEPT !.data = @ \cup {c.no}]
              BY <2>15, <6>1, <6>2, <6>4
            <6>5. CASE ~said /\ (patched => shown = Nothing) /\ shown' = shown  BY <4>4, <6>1, <6>2, <6>5
            <6>6. QED  BY <2>1, <6>3, <6>4, <6>5
          <5>2. IsFollowed(calls, sel)  BY <2>19, <4>1, <5>1 DEF SelInv
          <5>3. QED  BY <1>1, <2>1, <2>4, <2>8, <2>12, <4>2, <5>2
        <4>5. QED  BY <4>3, <4>4
      <3>3. QED  BY <3>1, <3>2
    <2>20. QED  BY <2>14, <2>16, <2>17, <2>18, <2>19 DEF Keeps
  <1>10. QED  BY <1>8, <1>9

-----------------------------------------------------------------------------
(* Every behaviour                                                           *)

\* What every page keeps, whatever its rules.
PageInv == TypeOK /\ Consistent

\* A page starts with nothing under way.
LEMMA InitInv ==
  ASSUME Init
  PROVE  PageInv /\ FlagsInv /\ OwnInv /\ SelInv
  <1>1. /\ page \in DOMAIN PAGES /\ slot \in Slots(PAGES[page])
        /\ here = FALSE /\ sel = First /\ shown = Nothing /\ up = {}
        /\ calls = <<>> /\ data = [k \in Keys |-> {}] /\ answered = [k \in Keys |-> {}]
        /\ issued = 0 /\ excused = FALSE
    BY DEF Init
  <1>2. First \in Keys  BY ConsoleAssumption DEF First
  <1>3. calls \in Seq(CallRecord) /\ Len(calls) = 0 /\ \A i \in 1..Len(calls) : FALSE
    BY <1>1
  <1>4. TypeOK  BY <1>1, <1>2, <1>3 DEF TypeOK
  <1>5. Consistent  BY <1>1, <1>3 DEF Consistent, CallsKnown
  <1>6. FlagsInv  BY <1>1, <1>3 DEF FlagsInv, LowerTheirs, HaveCalls, AreSingle
  <1>7. OwnInv  BY <1>1, <1>3 DEF OwnInv, CallsTell
  <1>8. SelInv  BY <1>1, <1>3 DEF SelInv, CallsFollow
  <1>9. QED  BY <1>4, <1>5, <1>6, <1>7, <1>8 DEF PageInv

\* An answer that arrives is one of five.
LEMMA AnswerStep ==
  ASSUME TypeOK, Consistent, NEW i, Answer(i)
  PROVE  Keeps
  <1>1. /\ i \in 1..Len(calls) /\ calls[i].answer # "sent"
        /\ \/ AnswerDropped(i, calls[i]) \/ AnswerLoad(i, calls[i]) \/ AnswerLead(i, calls[i])
           \/ CommandEnds(i, calls[i]) \/ CommandSucceeds(i, calls[i])
    BY DEF Answer
  <1>2. QED  BY <1>1, QuietAnswerStep, AnswerLoadStep, AnswerLeadStep, CommandSucceedsStep

\* Every step keeps what it owes.
LEMMA StepKeeps ==
  ASSUME TypeOK, Consistent, Next
  PROVE  Keeps
  <1>1. sel \in Keys /\ First \in Keys  BY ConsoleAssumption DEF TypeOK, First
  <1>2. {"open", "reopen", "poll", "click", "key"} \subseteq Ways  BY DEF Ways
  <1>3. CASE Leave  BY <1>3, LeaveStep
  <1>4. CASE OpenTab
    <2>1. StartLoad("open", sel)  BY <1>4 DEF OpenTab
    <2>2. QED  BY <1>1, <1>2, <2>1, StartLoadStep
  <1>5. CASE Reopen
    <2>1. StartLoad("reopen", sel)  BY <1>5 DEF Reopen
    <2>2. QED  BY <1>1, <1>2, <2>1, StartLoadStep
  <1>6. CASE Poll
    <2>1. StartLoad("poll", sel)  BY <1>6 DEF Poll
    <2>2. QED  BY <1>1, <1>2, <2>1, StartLoadStep
  <1>7. CASE Click
    <2>1. StartLoad("click", sel)  BY <1>7 DEF Click
    <2>2. QED  BY <1>1, <1>2, <2>1, StartLoadStep
  <1>8. CASE PressKey
    <2>1. StartLoad("key", First)  BY <1>8 DEF PressKey
    <2>2. QED  BY <1>1, <1>2, <2>1, StartLoadStep
  <1>9. CASE Do  BY <1>9, DoStep
  <1>10. CASE \E k \in Keys : Mount(k) \/ Select(k)  BY <1>10, MountStep, SelectStep
  <1>11. CASE \E i \in 1..MaxCalls : Serve(i) \/ Answer(i)  BY <1>11, ServeStep, AnswerStep
  <1>12. QED
    BY <1>3, <1>4, <1>5, <1>6, <1>7, <1>8, <1>9, <1>10, <1>11 DEF Next

\* Nothing happens to the page.
LEMMA StutterKeeps ==
  ASSUME TypeOK, Consistent, UNCHANGED vars
  PROVE  Keeps
  <1>1. /\ page' = page /\ slot' = slot /\ here' = here /\ sel' = sel /\ shown' = shown /\ up' = up
        /\ calls' = calls /\ data' = data /\ answered' = answered /\ issued' = issued
        /\ excused' = excused
    BY DEF vars
  <1>2. TypeOK'  BY <1>1 DEF TypeOK
  <1>3. Stays => Stays'  BY <1>1 DEF Stays, At
  <1>4. Consistent'  BY <1>1, SameSlot DEF Consistent
  <1>5. FlagsInv => FlagsInv'  BY <1>1, SameSlot DEF FlagsInv
  <1>6. OwnInv => OwnInv'  BY <1>1, SameSlot DEF OwnInv
  <1>7. SelInv => SelInv'  BY <1>1, <1>3, SameSlot DEF SelInv
  <1>8. QED  BY <1>2, <1>4, <1>5, <1>6, <1>7 DEF Keeps

\* So what every page keeps is kept, and each rule keeps its own.
LEMMA Inductive ==
  ASSUME PageInv, [Next]_vars
  PROVE  /\ PageInv'
         /\ GuardedPages /\ FlagsInv => FlagsInv'
         /\ ReportingPages /\ OwnInv => OwnInv'
         /\ FollowingPages /\ SelInv => SelInv'
  <1>1. TypeOK /\ Consistent  BY DEF PageInv
  <1>2. Keeps  BY <1>1, StepKeeps, StutterKeeps
  <1>3. ThePage \in Pages /\ slot \in Slots(ThePage)  BY <1>1, PageFacts
  <1>4. GuardedPages => Guarded  BY <1>3 DEF GuardedPages, Guarded
  <1>5. ReportingPages => Reporting  BY <1>3 DEF ReportingPages, Reporting
  <1>6. FollowingPages => Following  BY <1>3 DEF FollowingPages, Following
  <1>7. QED  BY <1>2, <1>4, <1>5, <1>6 DEF Keeps, PageInv

\* The invariant holds in every reachable state.
LEMMA Invariant == Spec => []PageInv
  <1>1. Init => PageInv  BY InitInv
  <1>2. PageInv /\ [Next]_vars => PageInv'  BY Inductive
  <1>3. QED  BY <1>1, <1>2, PTL DEF Spec

\* The variables keep their types: a request that is under way is one of the
\* page's loads or commands, and asks about a selection there is.
THEOREM ConsoleTyped == Spec => []TypeOK
  <1>1. PageInv => TypeOK  BY DEF PageInv
  <1>2. QED  BY <1>1, Invariant, PTL

\* On pages whose finally blocks lower what was raised, and whose buttons are
\* disabled while their handler runs, a spinner or a disabled button has a request
\* under way that ends it, and a double click submits once.
THEOREM FlagsTrue ==
  ASSUME GuardedPages
  PROVE  Spec => []FlagsAreTrue
  <1>1. Init => FlagsInv  BY InitInv
  <1>2. PageInv /\ FlagsInv /\ [Next]_vars => FlagsInv'  BY Inductive
  <1>3. PageInv /\ FlagsInv => FlagsAreTrue
    <2> SUFFICES ASSUME PageInv, FlagsInv PROVE FlagsAreTrue  OBVIOUS
    <2>1. TypeOK /\ Consistent  BY DEF PageInv
    <2>2. FlagHasCall  BY DEF FlagsInv, HaveCalls, FlagHasCall, Active
    <2>3. ASSUME NEW i \in 1..Len(calls), NEW j \in 1..Len(calls), i # j,
                 ~calls[i].loads, ~calls[j].loads, ~calls[i].gone, ~calls[j].gone,
                 calls[i].h.once, calls[i].h = calls[j].h
          PROVE  FALSE
      <3>1. PICK x \in Commands : CommandOf(calls[i], x)
        BY <2>1, <2>3 DEF Consistent, CallsKnown, Known
      <3>2. PICK y \in Commands : CommandOf(calls[j], y)
        BY <2>1, <2>3 DEF Consistent, CallsKnown, Known
      <3>3. x \in CommandRecord /\ y \in CommandRecord  BY <2>1, <3>1, <3>2, PageFacts
      <3>4. x.once /\ x.flag = y.flag
        <4>1. Does(x).once = x.once /\ Does(x).flag = x.flag /\ Does(y).flag = y.flag  BY <3>3, DoesFacts
        <4>2. calls[i].h = Does(x) /\ calls[j].h = Does(y)  BY <3>1, <3>2 DEF CommandOf
        <4>3. QED  BY <2>3, <4>1, <4>2
      <3>5. x.flag \in OnceFlags(ThePage, slot)  BY <3>1, <3>4 DEF OnceFlags, Commands
      <3>6. ThePage \in Pages /\ slot \in Slots(ThePage)  BY <2>1, PageFacts
      <3>7. x.flag # None  BY <3>5, <3>6 DEF GuardedPages, OnceIsGuarded
      <3>8. /\ Active(calls[i]) /\ x.flag \in calls[i].lowers
            /\ Active(calls[j]) /\ x.flag \in calls[j].lowers
        BY <2>3, <3>1, <3>2, <3>4, <3>7 DEF CommandOf, Active
      <3>9. QED  BY <2>3, <3>5, <3>8 DEF FlagsInv, AreSingle
    <2>4. OneSubmission  BY <2>3 DEF OneSubmission
    <2>5. QED  BY <2>2, <2>4 DEF FlagsAreTrue
  <1>4. QED  BY <1>1, <1>2, <1>3, Invariant, PTL DEF Spec

\* On a settled page every request is a command that went on without it.
LEMMA SettledFacts ==
  ASSUME TypeOK, Consistent, Settled
  PROVE  \A i \in 1..Len(calls) : ~calls[i].loads
  BY DEF Settled, Consistent, CallsKnown, Known, LoadOf

\* On pages whose commands reload, patch or replace what they change, a settled page
\* shows what its commands were told to have done.
THEOREM OwnShown ==
  ASSUME ReportingPages
  PROVE  Spec => []SettledShowsOwn
  <1>1. Init => OwnInv  BY InitInv
  <1>2. PageInv /\ OwnInv /\ [Next]_vars => OwnInv'  BY Inductive
  <1>3. PageInv /\ OwnInv => SettledShowsOwn
    <2> SUFFICES ASSUME PageInv, OwnInv, Settled, shown # Nothing, shown.of = sel, ~excused
                 PROVE  answered[sel] \subseteq shown.data
      BY DEF SettledShowsOwn
    <2>1. \A i \in 1..Len(calls) : ~calls[i].loads  BY SettledFacts DEF PageInv
    <2>2. Tells(shown, calls, answered, data)  BY DEF OwnInv
    <2>3. QED  BY <2>1, <2>2 DEF Tells, Brings
  <1>4. QED  BY <1>1, <1>2, <1>3, Invariant, PTL DEF Spec

\* On pages that load what is selected whenever the selection changes, a settled page
\* shows the selection, whatever was answered in between.
THEOREM SelectionShown ==
  ASSUME FollowingPages
  PROVE  Spec => []SettledShowsSelection
  <1>1. Init => SelInv  BY InitInv
  <1>2. PageInv /\ SelInv /\ [Next]_vars => SelInv'  BY Inductive
  <1>3. PageInv /\ SelInv => SettledShowsSelection
    <2> SUFFICES ASSUME PageInv, SelInv, Settled, shown # Nothing, ~excused, ~Stays, shown.of # sel
                 PROVE  FALSE
      BY DEF SettledShowsSelection
    <2>1. \A i \in 1..Len(calls) : ~calls[i].loads  BY SettledFacts DEF PageInv
    <2>2. IsFollowed(calls, sel)  BY DEF SelInv
    <2>3. QED  BY <2>1, <2>2 DEF IsFollowed, Follows
  <1>4. QED  BY <1>1, <1>2, <1>3, Invariant, PTL DEF Spec
=============================================================================
