---------------------------- MODULE ParserTable -----------------------------
(* The shape of the automata Ragel generates: a state is a set of edges, one  *)
(* for each label its code jumps to.  A character on no edge goes to st0, the *)
(* error.                                                                     *)
EXTENDS Integers, Sequences

\* A label ctrN: actions, then the next state.
Run(actions, n) == [do |-> actions, to |-> n]

\* An edge to a label stN, and to a label ctrN.
To(chars, n) == [on |-> chars, do |-> <<>>, to |-> n]
By(chars, ctr) == [on |-> chars, do |-> ctr.do, to |-> ctr.to]

\* What the states of a set run at the end of the input.
AtEnd(cases, actions) == [at |-> cases, do |-> actions]
=============================================================================
