-------------------------- MODULE MCTinkerGateway --------------------------
(***************************************************************************)
(* Instances of TinkerGateway for TLC: what the clients may send.          *)
(***************************************************************************)
EXTENDS TinkerGateway, TLC

CONSTANTS m1, m2, s1

Cmd(op, key, costs) ==
    [op |-> op, key |-> key, costs |-> costs, invalid |-> FALSE]
Bad(op) == [op |-> op, key |-> "ce", costs |-> << >>, invalid |-> TRUE]

TwoModels == {m1, m2}
OneSession == {s1}
NoSessions == {}
NoFutures == {}

\* Two clients whose backward passes pack and whose steps merge; the first
\* may also evaluate or send a command that is invalid.
OrderOffers ==
    [m \in {m1, m2} |->
        IF m = m1
        THEN << {Cmd("forward_backward", "ce", <<2, 1>>),
                 Cmd("forward_only", "ce", <<1>>)},
                {Cmd("optim_step", "ce", << >>), Bad("forward_backward")} >>
        ELSE << {Cmd("forward_backward", "ce", <<1>>)},
                {Cmd("optim_step", "ce", << >>)} >>]

\* Two clients that want the only slot. The first sends a split backward
\* pass or a rejected command, then loads a state; the second a backward pass,
\* and retries it after its result has expired.
LeaseOffers ==
    [m \in {m1, m2} |->
        IF m = m1
        THEN << {Cmd("forward_backward", "ce", <<1, 1>>), Bad("forward_only")},
                {Cmd("load_state", "ce", << >>)} >>
        ELSE << {Cmd("forward_backward", "ce", <<1>>)}, {} >>]

SecondExpires == {<<m2, 0>>, <<m2, 1>>}
=============================================================================
