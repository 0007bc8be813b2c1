---------------------------- MODULE MCPositions ----------------------------
\* TeslaMate while it drives: the points of the drive, two of them in one bucket;
\* then it has ended, and there is a charge.
EXTENDS Positions
CONSTANT d1
MCPoint(i, f) == [id |-> i, time |-> 0, drive |-> d1, full |-> f]
Going == [d \in Drives |-> IF d = d1 THEN [state |-> "open", start |-> 1, end |-> None] ELSE NoDrive]
Gone  == [Going EXCEPT ![d1] = [@ EXCEPT !.state = "closed", !.end = 3]]
MCTeslaMate ==
  <<[points |-> {MCPoint(1, TRUE), MCPoint(2, FALSE)}, drives |-> Going, charged |-> {}],
    [points |-> {MCPoint(1, TRUE), MCPoint(2, FALSE), MCPoint(3, FALSE)}, drives |-> Gone, charged |-> {1}]>>

\* Postgres keeps its foreign keys: in each state alone nothing dangles.
ASSUME Closed ==
  \A i \in DOMAIN MCTeslaMate :
    LET s == MCTeslaMate[i] IN
    /\ s.charged \subseteq IdsOf(s.points)
    /\ \A d \in Drives : s.drives[d].state = "closed" => {s.drives[d].start, s.drives[d].end} \subseteq IdsOf(s.points)
=============================================================================
