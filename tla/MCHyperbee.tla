----------------------------- MODULE MCHyperbee -----------------------------
(* Nodes of one or two keys.  The tree starts empty, with two levels, or with *)
(* three, where the inner nodes of one side have a key to spare.              *)
EXTENDS Hyperbee

Ascending == << <<0>>, <<0, 0>>, <<0, 0, 1>>, <<0, 1>>, <<0, 1, 1>>,
                <<1>>, <<1, 0>>, <<1, 1>>, <<1, 1, 0>> >>
Mixed == << <<1>>, <<0, 1>>, <<0>>, <<1, 1>>, <<0, 1, 1>> >>

MCKeys == ToSet(Ascending)
MCStarts == {<<>>, Mixed, Ascending, Reverse(Ascending)}
MCSubs == {<<0>>, <<1>>, <<0, 1>>}
MCBounds == {Unbounded, [Unbounded EXCEPT !.reverse = TRUE, !.limit = 3],
             [Unbounded EXCEPT !.gt = <<0, 1>>, !.lte = <<1>>],
             [Unbounded EXCEPT !.gte = <<1>>, !.reverse = TRUE],
             [Unbounded EXCEPT !.lt = <<0, 1, 1>>, !.limit = 0]}
=============================================================================
