----------------------------- MODULE RobotsRules -----------------------------
(***************************************************************************)
(* How robots.txt is read and applied (host/robots_manager.cpp): the       *)
(* parser that picks the rules of our group, the matcher of one rule, and  *)
(* the choice between the longest allow and the longest disallow.          *)
(*                                                                         *)
(* A path and a rule are sequences of characters.  A robots.txt is the     *)
(* sequence of its lines without comments and blanks, each a record of a   *)
(* kind and a value.  A User-agent value is "*", "ours" (it is, in any     *)
(* case, a prefix of the crawler's token) or "other".                      *)
(***************************************************************************)
EXTENDS SequencesExt, FiniteSetsExt, Integers

-----------------------------------------------------------------------------
(* The matcher.                                                            *)

IsAnchor(rule, r) == r = Len(rule) /\ rule[r] = "$"

Mismatch == <<0, 0>>

\* The variables of the loop.  starRi is the place of the last * in the rule, 0
\* as long as there was none, and starPi the character it is tried at.
LoopState(path, rule) ==
    {s \in [pi : 1 .. Len(path) + 1, ri : 1 .. Len(rule) + 1,
            starRi : 0 .. Len(rule), starPi : 0 .. Len(path) + 1] :
        s.starRi < s.ri /\ s.starPi <= s.pi}

Begin == [pi |-> 1, ri |-> 1, starRi |-> 0, starPi |-> 0]

MatchOne(s) == [s EXCEPT !.pi = @ + 1, !.ri = @ + 1]

PassStar(s) == [s EXCEPT !.ri = @ + 1, !.starRi = s.ri, !.starPi = s.pi]

Backtrack(s) == [s EXCEPT !.pi = s.starPi + 1, !.ri = s.starRi + 1, !.starPi = @ + 1]

\* Where the loop leaves <<pi, ri>>.
Scan(path, rule) ==
    LET scan[s \in LoopState(path, rule)] ==
          IF s.pi > Len(path) \/ s.ri > Len(rule) THEN <<s.pi, s.ri>>
          ELSE IF IsAnchor(rule, s.ri) THEN <<s.pi, s.ri>>
          ELSE IF rule[s.ri] = path[s.pi] THEN scan[MatchOne(s)]
          ELSE IF rule[s.ri] = "*" THEN scan[PassStar(s)]
          ELSE IF s.starRi # 0 THEN scan[Backtrack(s)]
          ELSE Mismatch
    IN scan[Begin]

\* After trailing stars the rule is used up, or its anchor is at the end.
EndsWell(path, rule, p, r) ==
    \/ \A i \in r .. Len(rule) : rule[i] = "*"
    \/ \E q \in r .. Len(rule) :
         /\ \A i \in r .. q - 1 : rule[i] = "*"
         /\ IsAnchor(rule, q)
         /\ p = Len(path) + 1

\* Variant: a path that ends in the middle of a rule matches it.
MatchUnfinished(path, rule) == Scan(path, rule) # Mismatch

RobotsMatch(path, rule) ==
    LET end == Scan(path, rule)
    IN end # Mismatch /\ EndsWell(path, rule, end[1], end[2])

\* What the comment above robotsMatch says: a match of a prefix, where * is
\* any run and a trailing $ the end of the path.
MatchesPrefix(path, rule) ==
    LET \* the characters of the path from which the rest of the rule matches
        from[r \in 1 .. Len(rule) + 1] ==
          IF r > Len(rule) THEN 1 .. Len(path) + 1
          ELSE IF IsAnchor(rule, r) THEN {Len(path) + 1}
          ELSE {p \in 1 .. Len(path) + 1 :
                  \/ rule[r] = "*" /\ \E q \in from[r + 1] : p <= q
                  \/ p <= Len(path) /\ rule[r] = path[p] /\ p + 1 \in from[r + 1]}
    IN 1 \in from[1]

-----------------------------------------------------------------------------
(* The parser.                                                             *)

NoRules == [allow |-> {}, disallow |-> {}]

AgentApplies(agent) == agent = "ours"

\* Variant: a group ends only where a User-agent line follows a rule.
ClosesRun(line) == line.kind \in {"allow", "disallow"}

\* Any line that names no agent ends a run of User-agent lines.
EndsAgents(line) == line.kind # "agent"

AddRule(rules, line) == [rules EXCEPT ![line.kind] = @ \cup {line.value}]

ReadAgent(s, line) ==
    [s EXCEPT !.collecting = TRUE,
              !.global = (@ /\ s.collecting) \/ line.value = "*",
              !.specific = (@ /\ s.collecting) \/ AgentApplies(line.value),
              !.seen_specific = @ \/ AgentApplies(line.value)]

ReadLine(s, line) ==
    LET t == [s EXCEPT !.collecting = @ /\ ~EndsAgents(line)]
    IN IF line.kind = "agent" THEN ReadAgent(s, line)
       ELSE IF line.kind \in {"allow", "disallow"} /\ line.value # <<>>
              THEN [t EXCEPT
                     !.rules = IF s.specific THEN AddRule(@, line) ELSE @,
                     !.global_rules = IF s.global THEN AddRule(@, line) ELSE @]
       ELSE t

ExtractRobotsDirectives(file) ==
    LET end == FoldLeft(ReadLine,
                        [collecting |-> FALSE, global |-> FALSE,
                         specific |-> FALSE, seen_specific |-> FALSE,
                         rules |-> NoRules, global_rules |-> NoRules], file)
    IN IF end.seen_specific THEN end.rules ELSE end.global_rules

-----------------------------------------------------------------------------
(* The decision for a URL of a host whose rules are known.                 *)

ExtractPath(url) == IF url.path = <<>> THEN <<"/">> ELSE url.path

\* The length of the longest rule that matches, -1 when none does.
Longest(path, rules) ==
    Max({-1} \cup {Len(r) : r \in {x \in rules : RobotsMatch(path, x)}})

CanFetch(rules, url) ==
    Longest(ExtractPath(url), rules.allow) >= Longest(ExtractPath(url), rules.disallow)

=============================================================================
