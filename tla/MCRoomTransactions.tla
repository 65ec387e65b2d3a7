------------------------- MODULE MCRoomTransactions -------------------------
(* Constants and the specification of the runs of RoomTransactions.        *)
EXTENDS RoomTransactions, TLC

\* The requests that move points or members; those of three users, with the
\* toggle of the chat; and those that deadlock, with the chat itself.
MoneyKinds == {"join", "leave", "kick", "transfer", "rollback", "reject"}
MemberKinds == {"join", "leave", "kick", "transfer", "rollback", "chatOn", "chatOff"}
LiveKinds == {"join", "leave", "transfer", "rollback", "chatOn", "chat"}

\* Amounts of both signs; 1 followed by -2 brings a score to its limit, so
\* that undoing the first of them is out of range.
Signed == {1, -2}
One == {1}
Low == -1
High == 1

Symmetry == Permutations(User) \cup Permutations(Proc)

\* A liveness property is not checked under symmetry; instead the same user
\* creates the room in every behaviour, which loses none but for the names.
Creator == CHOOSE u \in User : TRUE

LiveNext ==
    \/ CreateRoom(Creator)
    \/ \E p \in Proc :
          \/ \E r \in Inputs : Start(p, r)
          \/ Advance(p)
          \/ Cancel(p)
          \/ AbortVictim(p)

LiveSpec == Init /\ [][LiveNext]_vars /\ Fairness
=============================================================================
