----------------------------- MODULE MCGitSync -----------------------------
(* GitSync with the commits that the runs choose from. *)
EXTENDS GitSync

CONSTANTS s1, s2, s3, u1, u2, web, db, cpu, a, b

Same == [k \in Kinds |-> [x \in Bodies |-> x]]

\* gorm inserts enabled (a) in place of disabled (b), in a rule.
DefaultOn == [k \in Kinds |-> [x \in Bodies |-> IF k = "rule" THEN a ELSE x]]

Lists(es) == [is |-> "valid", entries |-> es]
Invalid == [is |-> "invalid", entries |-> {}]
Srv(n, x) == [name |-> n, body |-> x, server |-> {}]
Rule(x, on) == [name |-> cpu, body |-> x, server |-> on]

At1 == [server |-> Lists({Srv(web, a)}), rule |-> Lists({Rule(a, {web})})]
At2 == [server |-> Lists({Srv(web, b)}), rule |-> Missing]
At3 == [server |-> Missing, rule |-> Lists({Rule(b, {})})]
Broken == [server |-> Lists({Srv(web, a)}), rule |-> Invalid]
Row1(i, k, n) == [id |-> i, kind |-> k, name |-> n, body |-> a, ref |-> 0, managed |-> TRUE, live |-> TRUE]
Empty == {{}}
TwoServers == {{Row1(1, "server", web), Row1(2, "server", db)}}
OneCommit == {[server |-> Lists({Srv(web, b), Srv(db, b)}), rule |-> Missing]}
OneName == {At1, At2, At3, Broken}
Listed == {At1, At2}
Servers == {[server |-> Lists({Srv(web, x)}), rule |-> Missing] : x \in {a, b}}
Alone == {At1, [At1 EXCEPT !["rule"] = Missing], [At1 EXCEPT !["server"] = Missing]}
Leaves == {[server |-> Lists({Srv(web, a)}), rule |-> Missing], [server |-> Lists({}), rule |-> Missing]}
Off == {[At1 EXCEPT !["rule"] = Lists({Rule(b, {web})})]}
=============================================================================
