------------------------------- MODULE MCStrk20 --------------------------------
EXTENDS Strk20

CONSTANTS Me, Bob, AVNU, Strk, Eth

Give(t, a) == <<[token |-> t, amount |-> a]>>
Send(u, t, a) == <<[to |-> u, token |-> t, amount |-> a]>>
Intent(d, t, w) == [register |-> FALSE, deposits |-> d, transfers |-> t, withdrawals |-> w]
Registration == [Intent(<< >>, << >>, << >>) EXCEPT !.register = TRUE]

\* Before Me registers, and after a registration and deposits of 2 Strk, and of 1 Strk and 2 Eth.
Before == EmptyPool({Bob})
MyNote(t, i, a) == [from |-> Me, to |-> Me, token |-> t, index |-> i, amount |-> a]
Funded == [reg   |-> {Me, Bob},
           chans |-> {[from |-> Me, to |-> Me, index |-> 0, place |-> 0]},
           subs  |-> {[from |-> Me, to |-> Me, token |-> Strk, index |-> 0],
                      [from |-> Me, to |-> Me, token |-> Eth, index |-> 1]},
           notes |-> {MyNote(Strk, 0, 2), MyNote(Strk, 1, 1), MyNote(Eth, 0, 2)},
           nulls |-> {}]
MCPools == {Before, Funded}
MCFunds == (Strk :> 3) @@ (Eth :> 1)

MCWishes == {[kind |-> "register", intent |-> Registration],
             [kind |-> "invoke", intent |-> Intent(Give(Strk, 1) \o Give(Eth, 1), << >>, << >>)],
             [kind |-> "invoke", intent |-> Intent(<< >>, Send(Bob, Eth, 1) \o Send(Me, Eth, 1), << >>)],
             [kind |-> "invoke", intent |-> Intent(Give(Strk, 1), Send(Bob, Strk, 1), << >>)],
             [kind |-> "prepare", intent |-> Intent(Give(Eth, 1), Send(Bob, Strk, 1) \o Send(Bob, Strk, 1), << >>)],
             [kind |-> "prepare", intent |-> Intent(<< >>, << >>, Send(Bob, Strk, 1))]}
MCOtherIntents == {Registration, Intent(<< >>, Send(Bob, Strk, 1), << >>)}
================================================================================
