------------------------------ MODULE TextTools ------------------------------
(***************************************************************************)
(* The text tools' algorithms: the line diff (utils/textDiff.ts), the cron  *)
(* parser and its calendar (cronParser.ts), the check of a certificate      *)
(* bundle (certChain.ts) and the request of a DNS lookup (dnsLookup.ts).    *)
(* A text is a list of lines, a cron field a list of parts, a certificate   *)
(* the record of what the check reads of it.                                *)
(***************************************************************************)
EXTENDS Outcomes, Integers, Sequences, FiniteSets, SequencesExt

CONSTANTS MaxCells,      \* the largest diff table that is computed
          MaxMinute,     \* 59
          MaxHour,       \* 23
          DaysOfMonth,   \* the length of each month of a year of the calendar
          DaysOfWeek,    \* 7
          Horizon        \* minutes the search for the next runs goes through

ASSUME TextAssumption ==
  /\ MaxCells \in Nat /\ MaxMinute \in Nat /\ MaxHour \in Nat
  /\ DaysOfMonth \in Seq(Nat \ {0}) /\ DaysOfMonth # <<>>
  /\ DaysOfWeek \in Nat \ {0} /\ Horizon \in Nat

-----------------------------------------------------------------------------
(* The line diff *)

\* Mutant of Greater: the other one.
Lesser(a, b) == IF a >= b THEN b ELSE a

Greater(a, b) == IF a >= b THEN a ELSE b

\* Longest common subsequence of the ends of a and b, one entry for each pair
\* of positions; ties go to the removal.
Table(a, b) ==
  LET dp[x \in (1..Len(a) + 1) \X (1..Len(b) + 1)] ==
        IF x[1] > Len(a) \/ x[2] > Len(b) THEN 0
        ELSE IF a[x[1]] = b[x[2]] THEN dp[<<x[1] + 1, x[2] + 1>>] + 1
        ELSE Greater(dp[<<x[1] + 1, x[2]>>], dp[<<x[1], x[2] + 1>>])
  IN dp

Line(type, text, old, new) == [type |-> type, text |-> text, oldLine |-> old, newLine |-> new]

diffLines(a, b) ==
  LET dp == Table(a, b)
      from[x \in (1..Len(a) + 1) \X (1..Len(b) + 1)] ==
        LET i == x[1]
            j == x[2]
            equal  == <<Line("equal", a[i], i, j)>> \o from[<<i + 1, j + 1>>]
            remove == <<Line("remove", a[i], i, 0)>> \o from[<<i + 1, j>>]
            add    == <<Line("add", b[j], 0, j)>> \o from[<<i, j + 1>>]
        IN IF i > Len(a) /\ j > Len(b) THEN <<>>
           ELSE IF j > Len(b) THEN remove
           ELSE IF i > Len(a) THEN add
           ELSE IF a[i] = b[j] THEN equal
           ELSE IF dp[<<i + 1, j>>] >= dp[<<i, j + 1>>] THEN remove ELSE add
  IN from[<<1, 1>>]

\* The empty text counts no lines for the limit, but is one empty line to the diff.
computeDiff(old, new) ==
  LET count(t) == IF t = <<"">> THEN 0 ELSE Len(t)
      lines == diffLines(old, new)
  IN IF count(old) * count(new) > MaxCells THEN [ok |-> FALSE, lines |-> <<>>]
     ELSE [ok |-> TRUE, lines |-> lines,
           additions |-> Len(SelectSeq(lines, LAMBDA l : l.type = "add")),
           removals |-> Len(SelectSeq(lines, LAMBDA l : l.type = "remove"))]

-----------------------------------------------------------------------------
(* Cron expressions: a part is a range with a step, the step written or not. *)
(* "*" spans the field, "n/s" runs from n to the field's end, "n" is n-n.     *)

Star == [lo |-> -1, hi |-> -1, step |-> 1, slash |-> FALSE]

PartValues(p, min, max) ==
  LET lo == IF p.lo = -1 THEN min ELSE p.lo
      hi == IF p.hi = -1 THEN max ELSE p.hi
  IN {v \in lo..hi : (v - lo) % p.step = 0}

\* The values of a field in order, or {} for the error: a step of zero, no
\* value at all, or one that is out of range.
parseField(parts, min, max) ==
  LET all == UNION {PartValues(parts[i], min, max) : i \in DOMAIN parts}
  IN IF \E i \in DOMAIN parts : parts[i].step <= 0 THEN {}
     ELSE IF \E v \in all : v < min \/ v > max THEN {} ELSE all

Sorted(S) == SetToSortSeq(S, <)

\* Sunday is 0 and also the number after Saturday.
parseDayOfWeek(parts) ==
  {v % DaysOfWeek : v \in parseField(parts, 0, DaysOfWeek)}

MaxOf(S) == CHOOSE x \in S : \A y \in S : y <= x

parseFields(e) ==
  [minute |-> parseField(e.minute, 0, MaxMinute), hour |-> parseField(e.hour, 0, MaxHour),
   dayOfMonth |-> parseField(e.dom, 1, MaxOf({DaysOfMonth[m] : m \in DOMAIN DaysOfMonth})),
   month |-> parseField(e.month, 1, Len(DaysOfMonth)), dayOfWeek |-> parseDayOfWeek(e.dow),
   domWildcard |-> e.dom = <<Star>>, dowWildcard |-> e.dow = <<Star>>]

\* "every n": the values are the field's minimum and every n-th after it.
isEveryN(values, min, max) ==
  LET s == Sorted(values)
      step == s[2] - s[1]
  IN IF Len(s) < 2 THEN 0
     ELSE IF values = {v \in min..max : (v - min) % step = 0} THEN step ELSE 0

\* How the minute and the hour are worded; the days and months follow.
describe(f) ==
  LET everyHour == f.hour = 0..MaxHour
      one(S) == Cardinality(S) = 1
      minuteStep == isEveryN(f.minute, 0, MaxMinute)
      hourStep == isEveryN(f.hour, 0, MaxHour)
  IN [time |-> IF f.minute = 0..MaxMinute /\ everyHour THEN <<"every minute">>
               ELSE IF minuteStep # 0 /\ everyHour THEN <<"every n minutes", minuteStep>>
               ELSE IF f.minute = 0..MaxMinute /\ hourStep # 0 THEN <<"every minute, every n hours", hourStep>>
               ELSE IF one(f.minute) /\ everyHour THEN <<"at minute of every hour", f.minute>>
               ELSE IF one(f.minute) /\ hourStep # 0 THEN <<"at minute past every n hours", f.minute, hourStep>>
               ELSE <<"at minutes, hours", f.minute, f.hour>>,
      onDays |-> IF f.domWildcard THEN {} ELSE f.dayOfMonth,
      months |-> IF f.month = 1..Len(DaysOfMonth) THEN {} ELSE f.month,
      onWeekdays |-> IF f.dowWildcard THEN {} ELSE f.dayOfWeek]

\* The calendar, of one year that repeats: the time of a minute counted from
\* its first, which is the first day of a week.
MinutesOfDay == (MaxMinute + 1) * (MaxHour + 1)
DateOf(t) ==
  LET day    == t \div MinutesOfDay
      before(m) == FoldLeft(+, 0, SubSeq(DaysOfMonth, 1, m - 1))
      inYear == day % before(Len(DaysOfMonth) + 1)
      month  == CHOOSE m \in DOMAIN DaysOfMonth : before(m) <= inYear /\ inYear < before(m + 1)
  IN [minute |-> t % (MaxMinute + 1), hour |-> (t \div (MaxMinute + 1)) % (MaxHour + 1),
      dayOfMonth |-> inYear - before(month) + 1, month |-> month, dayOfWeek |-> day % DaysOfWeek]

\* Mutant of matches: both restricted day fields have to hold it.
MatchesBothDays(date, f) ==
  /\ date.minute \in f.minute /\ date.hour \in f.hour /\ date.month \in f.month
  /\ date.dayOfMonth \in f.dayOfMonth /\ date.dayOfWeek \in f.dayOfWeek

\* A day counts when either restricted day field holds it.
matches(date, f) ==
  LET domOk == date.dayOfMonth \in f.dayOfMonth
      dowOk == date.dayOfWeek \in f.dayOfWeek
  IN /\ date.minute \in f.minute /\ date.hour \in f.hour /\ date.month \in f.month
     /\ IF f.domWildcard /\ f.dowWildcard THEN TRUE
        ELSE IF f.domWildcard THEN dowOk
        ELSE IF f.dowWildcard THEN domOk
        ELSE domOk \/ dowOk

\* From the minute after now on, up to a number of runs, as far as the horizon.
nextRuns(f, now, count) ==
  LET hits == SelectSeq([i \in 1..Horizon |-> now + i], LAMBDA t : matches(DateOf(t), f))
  IN SubSeq(hits, 1, IF Len(hits) < count THEN Len(hits) ELSE count)

parseCron(e, now, count) ==
  LET Of(f) == OkIf({} \notin {f.minute, f.hour, f.dayOfMonth, f.month, f.dayOfWeek},
                    [fields |-> f, description |-> describe(f), runs |-> nextRuns(f, now, count)])
  IN Of(parseFields(e))

-----------------------------------------------------------------------------
(* A certificate bundle, in file order *)

selfSigned(c) == c.subject = c.issuer
roleOf(c) == IF ~c.isCA THEN "leaf" ELSE IF selfSigned(c) THEN "root" ELSE "intermediate"

\* What is wrong with a certificate by itself.
CertIssues(c) == (IF c.validity = "good" THEN {} ELSE {c.validity}) \cup (IF c.weakKey THEN {"weak key"} ELSE {})

\* Mutant of BrokenLink: the reversed pair is looked for last.
BrokenLinkReverseLast(certs, i) ==
  LET elsewhere == {j \in DOMAIN certs : certs[j].subject = certs[i].issuer}
  IN IF elsewhere # {}
       THEN [problem |-> "out of order", at |-> i, of |-> CHOOSE j \in elsewhere : \A k \in elsewhere : j <= k]
     ELSE IF certs[i + 1].issuer = certs[i].subject THEN [problem |-> "reverse order", at |-> i, of |-> i + 1]
     ELSE [problem |-> "missing intermediate", at |-> i, of |-> 0]

\* Why certificate i is not followed by its issuer.
BrokenLink(certs, i) ==
  LET elsewhere == {j \in DOMAIN certs : certs[j].subject = certs[i].issuer}
  IN IF certs[i + 1].issuer = certs[i].subject THEN [problem |-> "reverse order", at |-> i, of |-> i + 1]
     ELSE IF elsewhere # {}
       THEN [problem |-> "out of order", at |-> i, of |-> CHOOSE j \in elsewhere : \A k \in elsewhere : j <= k]
       ELSE [problem |-> "missing intermediate", at |-> i, of |-> 0]

analyzeCertChain(certs) ==
  LET n == Len(certs)
      inner == 1..(n - 1)
      issuedByNext == [i \in inner |-> certs[i].issuer = certs[i + 1].subject]
      first(i) == CHOOSE j \in 1..i : certs[j] = certs[i] /\ \A k \in 1..(j - 1) : certs[k] # certs[i]
      problems ==
        (IF certs[1].isCA THEN {[problem |-> "starts with a CA", at |-> 1, of |-> 0]} ELSE {})
        \cup {BrokenLink(certs, i) : i \in {j \in inner : ~issuedByNext[j]}}
        \cup {[problem |-> "self-signed, not last", at |-> i, of |-> 0] : i \in {j \in inner : selfSigned(certs[j])}}
        \cup {[problem |-> "duplicate", at |-> i, of |-> first(i)] : i \in {j \in 1..n : first(j) # j}}
      notes ==
        (IF roleOf(certs[n]) = "root" THEN {"root included"} ELSE {})
        \cup (IF n = 1 /\ ~certs[1].isCA THEN {"leaf only"} ELSE {})
        \cup (IF n = 1 /\ selfSigned(certs[1]) THEN {"self-signed"} ELSE {})
  IN IF certs = <<>> THEN [links |-> <<>>, problems |-> {}, notes |-> {}, ordered |-> TRUE]
     ELSE [links |-> [i \in 1..n |-> [role |-> roleOf(certs[i]), issues |-> CertIssues(certs[i]),
                                     issuedByNext |-> IF i = n THEN "last" ELSE IF issuedByNext[i] THEN "yes" ELSE "no"]],
           problems |-> problems, notes |-> notes, ordered |-> problems = {}]
=============================================================================
