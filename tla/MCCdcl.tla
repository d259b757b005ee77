------------------------------- MODULE MCCdcl -------------------------------
(***************************************************************************)
(* Five variables and a few first questions.                               *)
(***************************************************************************)
EXTENDS CdclProperties

MCVars == 1..5

Default == [chrono |-> 1, chronoalways |-> FALSE, chronolevelim |-> 100,
            chronoreusetrail |-> FALSE, minimize |-> TRUE, shrink |-> TRUE,
            eagersubsume |-> TRUE, reusetrail |-> TRUE, lucky |-> FALSE,
            walk |-> FALSE, limited |-> FALSE, limits |-> {}, phases |-> MCVars]

Start(cs, as, con, opts) ==
  [clauses |-> cs, assumptions |-> as, constraint |-> con, options |-> opts]

All == << <<1,2,3>>, <<1,2,-3>>, <<1,-2,3>>, <<1,-2,-3>>,
          <<-1,2,3>>, <<-1,2,-3>>, <<-1,-2,3>>, <<-1,-2,-3>>, <<4, 5>> >>

Chain == << <<-1, 2>>, <<-2, 3, 4>>, <<-3, -4, 1>>, <<-1, -3, -4>>, <<5>> >>

Blocks == << <<-1, 2>>, <<-1, 3>>, <<-2, -4, 5>>, <<-3, -4, -5>> >>

\* The learned clause has 2, which 1 implies, alone or together with 3.
Redundant == << <<-1, 2>>, <<-1, -4, 5>>, <<-2, -4, -5>>, <<3>> >>
Entangled == << <<-1, -3, 2>>, <<-1, -4, 5>>, <<-2, -4, -5>> >>

\* The unit -1, learned on a level above that of 5, leaves a single literal.
Forced == << <<-1, 2>>, <<-1, -2>>, <<1, 3>>, <<1, -3, -5>> >>

Exclusive == << <<-1, -4>>, <<-3, -5>>, <<4, -3, 2>> >>

Contradictory == << <<-1, 2>>, <<-1, -2>>, <<1>> >>

MCStarts == {
  Start(All, << >>, << >>, [Default EXCEPT !.limits = {"restart"}, !.lucky = TRUE]),
  Start(All, << >>, << >>, [Default EXCEPT !.chronoalways = TRUE, !.limits = {"reduce"}]),
  Start(All, << >>, << >>, [Default EXCEPT !.chronolevelim = 1, !.chrono = 2]),
  Start(All, << >>, << >>, [Default EXCEPT !.chronoreusetrail = TRUE, !.shrink = FALSE]),
  Start(All, << >>, << >>, [Default EXCEPT !.chrono = 0, !.limits = {"rephase"}]),
  Start(Blocks, <<1>>, << >>, [Default EXCEPT !.limits = {"reduce"}]),
  Start(Blocks \o << <<-1, -4, -5>> >>, <<-5>>, << >>, [Default EXCEPT !.shrink = FALSE]),
  Start(Chain, <<1, 3>>, <<2, 4>>, [Default EXCEPT !.limits = {"restart"}, !.phases = Lits]),
  Start(Chain, <<1>>, << >>, [Default EXCEPT !.limits = {"rephase"}]),
  Start(Chain \o << <<-2>> >>, << >>, << >>, [Default EXCEPT !.walk = TRUE, !.limits = {"rephase"}]),
  Start(Chain \o << <<4>> >>, <<3>>, << >>, [Default EXCEPT !.walk = TRUE, !.limits = {"rephase"}]),
  Start(Chain \o << <<4>> >>, <<1, -2>>, << >>, [Default EXCEPT !.walk = TRUE]),
  Start(Chain \o << <<4>> >>, << >>, << >>, [Default EXCEPT !.lucky = TRUE, !.walk = TRUE]),
  Start(Chain \o << <<4>> >>, <<3, 2, -2>>, << >>, [Default EXCEPT !.walk = TRUE, !.limited = TRUE]),
  Start(Redundant, << >>, << >>, [Default EXCEPT !.shrink = FALSE]),
  Start(Entangled, <<3>>, << >>, Default),
  Start(Forced, << >>, << >>, [Default EXCEPT !.chronoalways = TRUE]),
  Start(Exclusive, <<1, 3>>, <<4, 5>>, Default),
  Start(Exclusive, <<1, 3, -2>>, << >>, Default),
  Start(Contradictory, << >>, <<3, 4>>, Default) }

MCInputs == {<<-3, 4>>}
MCQuestions == {-3, 4}
MCConstraints == {<<-2, 3>>}
=============================================================================
