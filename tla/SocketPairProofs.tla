-------------------------- MODULE SocketPairProofs --------------------------
(***************************************************************************)
(* Safety of SocketPair for any number of messages of any size, sockets of *)
(* any capacity, and one process that may be killed at any point.          *)
(***************************************************************************)
EXTENDS SocketPair, TLAPS

\* There are two sides.
LEMMA TheOtherSide ==
  ASSUME NEW p \in Sides
  PROVE  /\ Other(p) \in Sides /\ Other(p) # p /\ Other(Other(p)) = p
         /\ \A q \in Sides : q = p \/ q = Other(p)
  BY DEF Sides, Other

\* What the assumptions say of the setup at hand.
LEMMA SetupFits ==
  ASSUME TypeOK
  PROVE  /\ setup.msg_size \in Nat /\ setup.msg_size > 0
         /\ setup.capacity \in Nat /\ setup.capacity > 0
         /\ setup.program \in {"c", "py"}
         /\ setup.program = "c" => WholeMessages
  BY SetupsAssumption DEF TypeOK, WholeMessages

\* One more round: the loop starts a new message, or ends after the last one.
LEMMA RoundCounted ==
  ASSUME TypeOK, NEW p \in Sides, rounds[p] < num_messages, LoopFrom(p, rounds[p] + 1)
  PROVE  /\ at' \in [Sides -> {"send", "recv", "close", "wait"} \cup Ended]
         /\ rounds' \in [Sides -> 0 .. num_messages]
         /\ left' \in [Sides -> 0 .. setup.msg_size]
         /\ rounds'[p] = rounds[p] + 1 /\ left'[p] = setup.msg_size
         /\ at'[p] = IF rounds[p] + 1 < num_messages THEN "send" ELSE "close"
         /\ \A q \in Sides \ {p} : rounds'[q] = rounds[q] /\ left'[q] = left[q] /\ at'[q] = at[q]
<1>1. setup.msg_size \in Nat /\ setup.msg_size > 0 /\ num_messages \in Nat
  BY SetupFits, RoundsAssumption
<1>2. rounds[p] + 1 \in 0 .. num_messages /\ setup.msg_size \in 0 .. setup.msg_size
  BY <1>1 DEF TypeOK
<1>3. QED
  BY <1>2 DEF TypeOK, LoopFrom, Goto

\* Pieces that go, with their socket or into a message, leave a number of pieces.
LEMMA PiecesGo ==
  ASSUME TypeOK, NEW p \in Sides
  PROVE  /\ [unread EXCEPT ![Other(p)] = 0] \in [Sides -> 0 .. setup.capacity]
         /\ \A n \in 0 .. setup.msg_size :
              n <= unread[Other(p)] =>
                [unread EXCEPT ![Other(p)] = @ - n] \in [Sides -> 0 .. setup.capacity]
  BY SetupFits, TheOtherSide DEF TypeOK

\* The death of a process leaves counts within bounds.
LEMMA DeathTyped ==
  ASSUME TypeOK, LoopInv, NEW p \in Sides, Die(p), setup' = setup,
         victim' \in Sides \cup {"none"}
  PROVE  TypeOK' /\ LoopInv'
<1>1. TypeOK'
  BY PiecesGo, TheOtherSide DEF TypeOK, Die, Goto, Hangup, Ended
<1>2. LoopInv'
  BY DEF TypeOK, LoopInv, Die, Goto, InLoop
<1>3. QED
  BY <1>1, <1>2

\* Every step keeps the types, and nobody counts beyond the last message.
LEMMA StepTyped ==
  ASSUME TypeOK, LoopInv, [Next]_vars
  PROVE  TypeOK' /\ LoopInv'
<1>c. setup.msg_size \in Nat /\ setup.msg_size > 0 /\ setup.capacity \in Nat /\ num_messages \in Nat
  BY SetupFits, RoundsAssumption
<1>1. ASSUME NEW p \in Sides, Send(p), UNCHANGED <<setup, victim>> PROVE TypeOK' /\ LoopInv'
  <2>1. left[p] \in 1 .. setup.msg_size /\ unread[p] + 1 \in 0 .. setup.capacity
    BY <1>1, <1>c DEF Send, TypeOK, LoopInv
  <2>2. at' \in [Sides -> {"send", "recv", "close", "wait"} \cup Ended]
    BY <1>1 DEF Send, TypeOK, Goto
  <2>3. TypeOK'
    <3>1. left[p] - 1 \in 0 .. setup.msg_size
      BY <2>1, <1>c
    <3>2. left' \in [Sides -> 0 .. setup.msg_size] /\ unread' \in [Sides -> 0 .. setup.capacity]
      BY <1>1, <2>1, <3>1 DEF Send, TypeOK
    <3>3. QED
      BY <1>1, <2>2, <3>2 DEF Send, TypeOK
  <2>4. \A q \in Sides \ {p} : at'[q] = at[q] /\ rounds'[q] = rounds[q] /\ left'[q] = left[q]
    BY <1>1 DEF Send, TypeOK, Goto
  <2>5. /\ rounds'[p] < num_messages
        /\ at'[p] = "send" => left'[p] > 0
    BY <1>1, <2>1 DEF Send, TypeOK, LoopInv, InLoop, Goto
  <2>6. QED
    BY <2>3, <2>4, <2>5 DEF LoopInv, InLoop
<1>2. ASSUME NEW p \in Sides, SendFails(p), UNCHANGED <<setup, victim>> PROVE TypeOK' /\ LoopInv'
  <2>1. CASE Die(p)
    BY <1>2, <2>1, DeathTyped DEF TypeOK
  <2>2. CASE Goto(p, "close") /\ UNCHANGED <<rounds, left, unread, reset, short>>
    BY <1>2, <2>2 DEF TypeOK, LoopInv, InLoop, Goto
  <2>3. QED
    BY <1>2, <2>1, <2>2 DEF SendFails
<1>3. ASSUME NEW p \in Sides, Recv(p), UNCHANGED <<setup, victim>> PROVE TypeOK' /\ LoopInv'
  <2>1. rounds[p] < num_messages /\ LoopFrom(p, rounds[p] + 1)
    BY <1>3 DEF Recv, LoopInv, InLoop
  <2> DEFINE there == unread[Other(p)]
             taken == IF there < setup.msg_size THEN there ELSE setup.msg_size
  <2>2. taken \in 0 .. setup.msg_size /\ taken <= unread[Other(p)]
    BY <1>c, TheOtherSide DEF TypeOK
  <2>3. unread' = [unread EXCEPT ![Other(p)] = @ - taken]
    BY <1>3 DEF Recv
  <2> HIDE DEF taken
  <2>4. unread' \in [Sides -> 0 .. setup.capacity] /\ short' \in [Sides -> BOOLEAN]
    BY <1>3, <2>2, <2>3, PiecesGo DEF Recv, TypeOK
  <2>5. TypeOK'
    BY <1>3, <2>1, <2>4, RoundCounted DEF Recv, TypeOK
  <2>6. LoopInv'
    BY <2>1, <1>c, RoundCounted DEF LoopInv, InLoop, TypeOK
  <2>7. QED
    BY <2>5, <2>6
<1>4. ASSUME NEW p \in Sides, RecvEnds(p), UNCHANGED <<setup, victim>> PROVE TypeOK' /\ LoopInv'
  <2>1. CASE Die(p)
    BY <1>4, <2>1, DeathTyped DEF TypeOK
  <2>2. CASE /\ reset' = [reset EXCEPT ![p] = FALSE]
             /\ LoopFrom(p, rounds[p] + 1)
             /\ short' = [short EXCEPT ![p] = TRUE]
             /\ UNCHANGED unread
    <3>1. rounds[p] < num_messages
      BY <1>4 DEF RecvEnds, LoopInv, InLoop
    <3>2. TypeOK'
      BY <1>4, <2>2, <3>1, RoundCounted DEF TypeOK
    <3>3. LoopInv'
      BY <2>2, <3>1, <1>c, RoundCounted DEF LoopInv, InLoop, TypeOK
    <3>4. QED
      BY <3>2, <3>3
  <2>3. QED
    BY <1>4, <2>1, <2>2 DEF RecvEnds
<1>5. ASSUME NEW p \in Sides, Close(p), UNCHANGED <<setup, victim>> PROVE TypeOK' /\ LoopInv'
  <2>1. TypeOK'
    BY <1>5, PiecesGo, TheOtherSide DEF Close, TypeOK, Goto, Hangup, Ended
  <2>2. LoopInv'
    BY <1>5 DEF Close, TypeOK, LoopInv, InLoop, Goto
  <2>3. QED
    BY <2>1, <2>2
<1>6. ASSUME Wait, UNCHANGED <<setup, victim>> PROVE TypeOK' /\ LoopInv'
  BY <1>6 DEF Wait, TypeOK, LoopInv, InLoop, Goto, Ended
<1>7. ASSUME NEW p \in Sides, Kill(p) PROVE TypeOK' /\ LoopInv'
  BY <1>7, DeathTyped DEF Kill
<1>8. CASE UNCHANGED vars
  BY <1>8 DEF vars, TypeOK, LoopInv, InLoop
<1>9. QED
  BY <1>1, <1>2, <1>3, <1>4, <1>5, <1>6, <1>7, <1>8 DEF Next, Step

\* Both programs keep their counts within bounds whatever happens to either
\* process (socket_comm.c:15-49, socket_comm.py:16-56).
THEOREM CountsStayTyped == Spec => [](TypeOK /\ LoopInv)
<1>1. Init => TypeOK /\ LoopInv
  BY RoundsAssumption, SetupsAssumption DEF Init, TypeOK, LoopInv, InLoop
<1>2. TypeOK /\ LoopInv /\ [Next]_vars => (TypeOK /\ LoopInv)'
  BY StepTyped
<1>3. QED
  BY <1>1, <1>2, PTL DEF Spec
-----------------------------------------------------------------------------
\* Messages of one piece.

WholeFits(p) ==
  /\ ~short[p] /\ ~reset[p]
  /\ ~InLoop(p) => at[p] # "killed" /\ rounds[p] = num_messages
  /\ unread[p] = SentMessages(p) - rounds[Other(p)]

\* While nobody is killed, nobody finds the other side gone: who has left has sent
\* and received everything (socket_comm.c:15-31).
LEMMA NobodyFailsWhole ==
  ASSUME TypeOK, LoopInv, WholeInv, WholeMessages, victim = "none", NEW p \in Sides
  PROVE  /\ ~SendFails(p) /\ ~RecvEnds(p)
         /\ at[p] = "close" => unread[Other(p)] = 0
<1>1. WholeFits(p) /\ WholeFits(Other(p))
  BY TheOtherSide DEF WholeInv, WholeFits
<1>2. /\ rounds[p] \in 0 .. num_messages /\ rounds[Other(p)] \in 0 .. num_messages
      /\ unread[p] \in Nat /\ unread[Other(p)] \in Nat /\ num_messages \in Nat
  <2>1. /\ rounds \in [Sides -> 0 .. num_messages] /\ unread \in [Sides -> 0 .. setup.capacity]
        /\ setup.capacity \in Nat /\ Other(p) \in Sides
    BY TheOtherSide, SetupFits DEF TypeOK
  <2>2. QED
    BY <2>1, RoundsAssumption
<1>3. InLoop(p) => rounds[p] < num_messages
  BY DEF LoopInv
<1>4. at[Other(p)] = "recv" => rounds[Other(p)] < num_messages
  BY TheOtherSide DEF LoopInv, InLoop
<1>5. Closed(Other(p)) => rounds[Other(p)] = num_messages /\ SentMessages(Other(p)) = num_messages
  BY <1>1 DEF WholeFits, Closed, InLoop, Ended, SentMessages
<1>6. ~SendFails(p)
  BY <1>1, <1>2, <1>3, <1>5 DEF SendFails, WholeFits, SentMessages, InLoop
<1>7. ~RecvEnds(p)
  BY <1>1, <1>2, <1>3, <1>5, TheOtherSide DEF RecvEnds, WholeFits, InLoop
<1>8. at[p] = "close" => unread[Other(p)] = 0
  <2>1. SentMessages(Other(p)) <= num_messages
    BY <1>2, <1>4 DEF SentMessages
  <2>2. at[p] = "close" => rounds[p] = num_messages
    BY <1>1 DEF WholeFits, InLoop
  <2>3. unread[Other(p)] = SentMessages(Other(p)) - rounds[p] /\ SentMessages(Other(p)) \in Nat
    BY <1>1, <1>2, TheOtherSide DEF WholeFits, SentMessages
  <2>4. QED
    BY <1>2, <2>1, <2>2, <2>3
<1>9. QED
  BY <1>6, <1>7, <1>8

\* Every step keeps messages of one piece whole.
LEMMA StepWhole ==
  ASSUME TypeOK, LoopInv, WholeInv, [Next]_vars
  PROVE  WholeInv'
<1> SUFFICES ASSUME WholeMessages', victim' = "none" PROVE \A p \in Sides : WholeFits(p)'
  BY DEF WholeInv, WholeFits
<1>c. WholeMessages /\ victim = "none" /\ setup' = setup
  BY DEF Next, Step, Kill, vars, WholeMessages, Sides
<1>w. \A p \in Sides : WholeFits(p)
  BY <1>c DEF WholeInv, WholeFits
<1>t. /\ at \in [Sides -> {"send", "recv", "close", "wait"} \cup Ended]
      /\ rounds \in [Sides -> 0 .. num_messages] /\ left \in [Sides -> 0 .. 1]
      /\ unread \in [Sides -> 0 .. setup.capacity] /\ reset \in [Sides -> BOOLEAN]
      /\ short \in [Sides -> BOOLEAN]
      /\ setup.msg_size = 1 /\ setup.capacity \in Nat /\ num_messages \in Nat
  BY <1>c, SetupFits, RoundsAssumption DEF TypeOK, WholeMessages
<1>1. ASSUME NEW p \in Sides, Send(p) PROVE \A r \in Sides : WholeFits(r)'
  <2>1. left[p] = 1 /\ at[p] = "send"
    BY <1>1, <1>t DEF Send, LoopInv
  <2>2. /\ at'[p] = "recv" /\ unread'[p] = unread[p] + 1
        /\ at'[Other(p)] = at[Other(p)] /\ unread'[Other(p)] = unread[Other(p)]
        /\ rounds' = rounds /\ reset' = reset /\ short' = short
    BY <1>1, <1>t, <2>1, TheOtherSide DEF Send, Goto
  <2>3. WholeFits(p)'
    BY <1>w, <1>t, <2>1, <2>2, TheOtherSide DEF WholeFits, SentMessages, InLoop
  <2>4. WholeFits(Other(p))'
    BY <1>w, <1>t, <2>2, TheOtherSide DEF WholeFits, SentMessages, InLoop
  <2>5. QED
    BY <2>3, <2>4, TheOtherSide
<1>2. ASSUME NEW p \in Sides, Recv(p) PROVE \A r \in Sides : WholeFits(r)'
  <2>1. rounds[p] < num_messages /\ LoopFrom(p, rounds[p] + 1) /\ at[p] = "recv" /\ unread[Other(p)] > 0
    BY <1>2 DEF Recv, LoopInv, InLoop
  <2>2. /\ unread'[Other(p)] = unread[Other(p)] - 1 /\ unread'[p] = unread[p]
        /\ ~short'[p] /\ short'[Other(p)] = short[Other(p)] /\ reset' = reset
    <3>1. ~(unread[Other(p)] < setup.msg_size)
      BY <1>t, <2>1, TheOtherSide
    <3>2. /\ unread' = [unread EXCEPT ![Other(p)] = @ - setup.msg_size]
          /\ short' = [short EXCEPT ![p] = @ \/ setup.msg_size < setup.msg_size] /\ reset' = reset
      BY <1>2, <3>1 DEF Recv
    <3>3. ~short[p]
      BY <1>w DEF WholeFits
    <3>4. QED
      BY <1>t, <3>2, <3>3, TheOtherSide
  <2>3. /\ rounds'[p] = rounds[p] + 1 /\ rounds'[Other(p)] = rounds[Other(p)]
        /\ at'[p] = IF rounds[p] + 1 < num_messages THEN "send" ELSE "close"
        /\ at'[Other(p)] = at[Other(p)]
    BY <2>1, RoundCounted, TheOtherSide
  <2>4. WholeFits(p)'
    BY <1>w, <1>t, <2>1, <2>2, <2>3, TheOtherSide DEF WholeFits, SentMessages, InLoop
  <2>5. WholeFits(Other(p))'
    BY <1>w, <1>t, <2>1, <2>2, <2>3, TheOtherSide DEF WholeFits, SentMessages, InLoop
  <2>6. QED
    BY <2>4, <2>5, TheOtherSide
<1>3. ASSUME NEW p \in Sides, Close(p) PROVE \A r \in Sides : WholeFits(r)'
  <2>1. at[p] = "close" /\ unread[Other(p)] = 0
    BY <1>3, <1>c, NobodyFailsWhole DEF Close
  <2>2. UNCHANGED <<unread, reset, rounds, short>>
    BY <1>3, <1>t, <2>1, TheOtherSide DEF Close, Hangup
  <2>3. at'[p] \in {"wait", "exited"} /\ at'[Other(p)] = at[Other(p)]
    BY <1>3, <1>t, TheOtherSide DEF Close, Goto
  <2>4. WholeFits(p)' /\ WholeFits(Other(p))'
    BY <1>w, <2>1, <2>2, <2>3, TheOtherSide DEF WholeFits, SentMessages, InLoop
  <2>5. QED
    BY <2>4, TheOtherSide
<1>4. ASSUME Wait PROVE \A r \in Sides : WholeFits(r)'
  BY <1>4, <1>w, <1>t DEF Wait, Goto, WholeFits, SentMessages, InLoop, Ended
<1>5. CASE UNCHANGED vars
  BY <1>5, <1>w DEF vars, WholeFits, SentMessages, InLoop
<1>6. ASSUME NEW p \in Sides PROVE ~SendFails(p) /\ ~RecvEnds(p) /\ ~Kill(p)
  BY <1>c, NobodyFailsWhole DEF Kill, Sides
<1>7. QED
  BY <1>1, <1>2, <1>3, <1>4, <1>5, <1>6 DEF Next, Step

-----------------------------------------------------------------------------
\* Messages of any size.

\* Messages and their pieces, as plain arithmetic.
LEMMA PiecesOfMessages ==
  ASSUME NEW n \in Nat, NEW k \in Nat, NEW m \in Nat
  PROVE  /\ n * m \in Nat /\ (n + 1) * m = n * m + m
         /\ n < k => n * m + m <= k * m
<1>1. n * m \in Nat /\ (n + 1) * m = n * m + m
  OBVIOUS
<1>2. ASSUME n < k PROVE n * m + m <= k * m
  <2>1. PICK d \in Nat : k = n + 1 + d
    <3>1. k - n - 1 \in Nat /\ k = n + 1 + (k - n - 1)
      BY <1>2
    <3>2. QED
      BY <3>1
  <2>2. k * m = (n + 1) * m + d * m /\ d * m \in Nat
    BY <2>1
  <2>3. QED
    BY <1>1, <2>2
<1>3. QED
  BY <1>1, <1>2

FlowFits(p) ==
  /\ at[p] # "killed"
  /\ InLoop(p) =>
       /\ unread[Other(p)] >= SentPieces(Other(p)) - rounds[p] * setup.msg_size
       /\ ~InLoop(Other(p)) => rounds[Other(p)] = num_messages

\* The counters as numbers, for arithmetic.
LEMMA Counts ==
  ASSUME TypeOK, NEW p \in Sides
  PROVE  /\ rounds[p] \in 0 .. num_messages /\ num_messages \in Nat /\ rounds[p] \in Nat
         /\ left[p] \in 0 .. setup.msg_size /\ left[p] \in Int
         /\ unread[p] \in Nat /\ SentPieces(p) \in Int
         /\ rounds[p] * setup.msg_size \in Nat
<1>1. /\ setup.msg_size \in Nat /\ setup.capacity \in Nat /\ num_messages \in Nat
      /\ rounds[p] \in 0 .. num_messages /\ left[p] \in 0 .. setup.msg_size
      /\ unread[p] \in 0 .. setup.capacity
  BY SetupFits, RoundsAssumption DEF TypeOK
<1>2. rounds[p] \in Nat /\ left[p] \in Int /\ unread[p] \in Nat
  BY <1>1
<1>3. rounds[p] * setup.msg_size \in Nat
  BY <1>1, <1>2, PiecesOfMessages
<1>4. SentPieces(p) \in Int
  BY <1>1, <1>2, <1>3 DEF SentPieces
<1>5. QED
  BY <1>1, <1>2, <1>3, <1>4

\* While nobody is killed, recv() always finds a piece sooner or later, and SIGPIPE
\* strikes nobody (socket_comm.c:19-26, socket_comm.py:18-24).
LEMMA NobodyDies ==
  ASSUME TypeOK, LoopInv, WholeInv, FlowInv, victim = "none", NEW p \in Sides
  PROVE  ~RecvEnds(p) /\ (SendFails(p) => setup.program = "py")
<1>1. ASSUME RecvEnds(p) PROVE FALSE
  <2>1. at[p] = "recv" /\ unread[Other(p)] = 0 /\ Closed(Other(p)) /\ InLoop(p)
    BY <1>1 DEF RecvEnds, InLoop
  <2>2. ~InLoop(Other(p)) /\ SentPieces(Other(p)) = rounds[Other(p)] * setup.msg_size
    <3>1. at[Other(p)] \notin {"send", "recv"}
      BY <2>1 DEF Closed, Ended
    <3>2. rounds[Other(p)] * setup.msg_size + 0 = rounds[Other(p)] * setup.msg_size
      BY TheOtherSide, Counts
    <3>3. QED
      BY <3>1, <3>2 DEF InLoop, SentPieces
  <2>3. /\ 0 >= num_messages * setup.msg_size - rounds[p] * setup.msg_size
        /\ rounds[p] < num_messages
    BY <2>1, <2>2 DEF FlowInv, LoopInv
  <2>4. rounds[p] * setup.msg_size + setup.msg_size <= num_messages * setup.msg_size
    BY <2>3, Counts, SetupFits, PiecesOfMessages
  <2>5. num_messages * setup.msg_size \in Nat
    BY Counts, SetupFits, PiecesOfMessages
  <2>6. QED
    BY <2>3, <2>4, <2>5, Counts, SetupFits
<1>2. SendFails(p) => setup.program = "py"
  BY SetupFits, NobodyFailsWhole
<1>3. QED
  BY <1>1, <1>2

\* Every step keeps the account of pieces sent, in flight and received.
LEMMA StepFlow ==
  ASSUME TypeOK, LoopInv, WholeInv, FlowInv, [Next]_vars
  PROVE  FlowInv'
<1> SUFFICES ASSUME victim' = "none" PROVE \A p \in Sides : FlowFits(p)'
  BY DEF FlowInv, FlowFits
<1>c. victim = "none" /\ setup' = setup
  BY DEF Next, Step, Kill, vars, Sides
<1>w. \A p \in Sides : FlowFits(p)
  BY <1>c DEF FlowInv, FlowFits
<1>t. /\ at \in [Sides -> {"send", "recv", "close", "wait"} \cup Ended]
      /\ rounds \in [Sides -> 0 .. num_messages] /\ left \in [Sides -> 0 .. setup.msg_size]
      /\ unread \in [Sides -> 0 .. setup.capacity]
      /\ setup.msg_size \in Nat /\ setup.msg_size > 0
  BY SetupFits DEF TypeOK
\* It is enough to know how the pieces sent and the pieces there change together.
<1>s. ASSUME NEW p \in Sides, at'[p] # "killed",
             at'[Other(p)] = at[Other(p)], rounds'[Other(p)] = rounds[Other(p)],
             left'[Other(p)] = left[Other(p)],
             InLoop(p)' => /\ InLoop(p)
                           /\ unread'[Other(p)] - unread[Other(p)] >=
                                rounds[p] * setup.msg_size - rounds'[p] * setup.msg_size,
             InLoop(Other(p)) =>
               /\ unread'[p] - unread[p] = SentPieces(p)' - SentPieces(p) /\ SentPieces(p)' \in Int
               /\ ~InLoop(p)' => rounds'[p] = num_messages,
             TypeOK'
      PROVE  \A r \in Sides : FlowFits(r)'
  <2>1. /\ SentPieces(Other(p))' = SentPieces(Other(p)) /\ (InLoop(Other(p))' <=> InLoop(Other(p)))
    BY <1>c, <1>s DEF SentPieces, InLoop
  <2>2. /\ unread'[p] \in Nat /\ unread'[Other(p)] \in Nat /\ rounds'[p] * setup.msg_size \in Nat
    <3>1. \A r \in Sides : unread'[r] \in Nat /\ rounds'[r] \in Nat
      BY <1>c, <1>s, <1>t, RoundsAssumption, SetupFits DEF TypeOK
    <3>2. QED
      BY <3>1, <1>t, TheOtherSide, PiecesOfMessages
  <2>3. FlowFits(p)'
    BY <1>w, <1>s, <1>c, <2>1, <2>2, Counts, TheOtherSide DEF FlowFits
  <2>4. FlowFits(Other(p))'
    BY <1>w, <1>s, <1>c, <2>1, <2>2, Counts, TheOtherSide DEF FlowFits
  <2>5. QED
    BY <2>3, <2>4, TheOtherSide
<1>p. TypeOK'
  BY StepTyped
<1>1. ASSUME NEW p \in Sides, Send(p) PROVE \A r \in Sides : FlowFits(r)'
  <2>1. /\ at[p] = "send" /\ unread'[p] = unread[p] + 1 /\ left'[p] = left[p] - 1
        /\ at'[p] = IF left[p] = 1 THEN "recv" ELSE "send"
        /\ rounds' = rounds /\ at'[Other(p)] = at[Other(p)]
        /\ unread'[Other(p)] = unread[Other(p)] /\ left'[Other(p)] = left[Other(p)]
    BY <1>1, <1>t, TheOtherSide DEF Send, Goto
  <2>2. SentPieces(p)' = SentPieces(p) + 1
    BY <1>c, <1>t, <2>1, Counts DEF SentPieces
  <2>3. QED
    BY <1>s, <1>p, <2>1, <2>2, Counts, TheOtherSide DEF InLoop
<1>2. ASSUME NEW p \in Sides, SendFails(p) PROVE \A r \in Sides : FlowFits(r)'
  <2>1. Goto(p, "close") /\ UNCHANGED <<rounds, left, unread>> /\ Closed(Other(p))
    BY <1>2, <1>c, NobodyDies DEF SendFails
  <2>2. ~InLoop(Other(p)) /\ at'[p] = "close" /\ at'[Other(p)] = at[Other(p)]
    BY <1>t, <2>1, TheOtherSide DEF Closed, InLoop, Goto, Ended
  <2>3. QED
    BY <1>s, <1>p, <2>1, <2>2 DEF InLoop
<1>3. ASSUME NEW p \in Sides, Recv(p) PROVE \A r \in Sides : FlowFits(r)'
  <2>1. rounds[p] < num_messages /\ LoopFrom(p, rounds[p] + 1) /\ at[p] = "recv"
    BY <1>3 DEF Recv, LoopInv, InLoop
  <2>2. /\ rounds'[p] = rounds[p] + 1 /\ rounds'[Other(p)] = rounds[Other(p)]
        /\ left'[p] = setup.msg_size /\ left'[Other(p)] = left[Other(p)]
        /\ at'[p] = IF rounds[p] + 1 < num_messages THEN "send" ELSE "close"
        /\ at'[Other(p)] = at[Other(p)]
    BY <2>1, RoundCounted, TheOtherSide
  <2>3. unread'[p] = unread[p] /\ unread'[Other(p)] >= unread[Other(p)] - setup.msg_size
    <3> DEFINE there == unread[Other(p)]
               taken == IF there < setup.msg_size THEN there ELSE setup.msg_size
    <3>1. taken \in Int /\ taken <= setup.msg_size /\ there \in Int
      BY <1>t, Counts, TheOtherSide
    <3>2. unread' = [unread EXCEPT ![Other(p)] = @ - taken]
      BY <1>3 DEF Recv
    <3>3. QED
      BY <1>t, <3>1, <3>2, TheOtherSide
  <2>4. rounds'[p] * setup.msg_size = rounds[p] * setup.msg_size + setup.msg_size
    BY <1>t, <2>2, Counts, PiecesOfMessages
  <2>5. SentPieces(p)' = SentPieces(p)
    BY <1>c, <1>t, <2>1, <2>2, <2>4, Counts DEF SentPieces
  <2>6. ~InLoop(p)' => rounds'[p] = num_messages
    BY <2>1, <2>2, Counts DEF InLoop
  <2>7. unread'[Other(p)] \in Int
    <3>1. unread' \in [Sides -> 0 .. setup.capacity]
      BY <1>p, <1>c DEF TypeOK
    <3>2. QED
      BY <3>1, SetupFits, TheOtherSide
  <2>8. QED
    BY <1>s, <1>p, <1>t, <2>1, <2>2, <2>3, <2>4, <2>5, <2>6, <2>7, Counts, TheOtherSide DEF InLoop
<1>4. ASSUME NEW p \in Sides, Close(p) PROVE \A r \in Sides : FlowFits(r)'
  <2>1. /\ at[p] = "close" /\ at'[p] \in {"wait", "exited"} /\ at'[Other(p)] = at[Other(p)]
        /\ unread'[p] = unread[p] /\ rounds' = rounds /\ left' = left
    BY <1>4, <1>t, TheOtherSide DEF Close, Goto, Hangup
  <2>2. InLoop(Other(p)) => rounds[p] = num_messages
    BY <1>w, <2>1, TheOtherSide DEF FlowFits, InLoop
  <2>3. SentPieces(p)' = SentPieces(p)
    BY <1>c, <2>1 DEF SentPieces
  <2>4. QED
    BY <1>s, <1>p, <2>1, <2>2, <2>3, Counts DEF InLoop
<1>5. ASSUME Wait PROVE \A r \in Sides : FlowFits(r)'
  <2>1. PICK p \in Sides : p = "parent"
    BY DEF Sides
  <2>2. /\ at[p] = "wait" /\ at'[p] = "exited" /\ at'[Other(p)] = at[Other(p)]
        /\ rounds' = rounds /\ left' = left /\ unread' = unread
    BY <1>5, <1>t, <2>1, TheOtherSide DEF Wait, Goto
  <2>3. InLoop(Other(p)) => rounds[p] = num_messages
    BY <1>w, <2>2, TheOtherSide DEF FlowFits, InLoop
  <2>4. SentPieces(p)' = SentPieces(p)
    BY <1>c, <2>2 DEF SentPieces
  <2>5. QED
    BY <1>s, <1>p, <2>2, <2>3, <2>4, Counts DEF InLoop
<1>6. CASE UNCHANGED vars
  BY <1>6, <1>w DEF vars, FlowFits, SentPieces, InLoop
<1>7. ASSUME NEW p \in Sides PROVE ~RecvEnds(p) /\ ~Kill(p)
  BY <1>c, NobodyDies DEF Kill, Sides
<1>8. QED
  BY <1>1, <1>2, <1>3, <1>4, <1>5, <1>6, <1>7 DEF Next, Step

-----------------------------------------------------------------------------
\* The counters of both processes and the pieces between them always fit.
THEOREM PairConsistent == Spec => [](WholeInv /\ FlowInv)
<1>1. Init => WholeInv /\ FlowInv
  <2>1. SUFFICES ASSUME Init PROVE WholeInv /\ FlowInv
    OBVIOUS
  <2>2. /\ setup.msg_size \in Nat /\ num_messages \in Nat
        /\ \A p \in Sides : /\ at[p] = (IF num_messages > 0 THEN "send" ELSE "close")
                            /\ rounds[p] = 0 /\ left[p] = setup.msg_size /\ unread[p] = 0
                            /\ ~reset[p] /\ ~short[p]
    BY <2>1, RoundsAssumption, SetupsAssumption DEF Init
  <2>3. WholeInv
    BY <2>2, TheOtherSide DEF WholeInv, SentMessages, InLoop
  <2>4. \A p \in Sides : SentPieces(p) = 0
    BY <2>2 DEF SentPieces
  <2>5. FlowInv
    BY <2>2, <2>4, TheOtherSide DEF FlowInv, InLoop
  <2>6. QED
    BY <2>3, <2>5
<1>2. TypeOK /\ LoopInv /\ WholeInv /\ FlowInv /\ [Next]_vars => (WholeInv /\ FlowInv)'
  BY StepWhole, StepFlow
<1>3. QED
  BY <1>1, <1>2, CountsStayTyped, PTL DEF Spec

\* The two loops are never more than a round apart, as long as nobody is killed
\* (socket_comm.c:15, :33).
THEOREM RoundsStayInStep == Spec => []InStep
<1>1. TypeOK /\ WholeInv => InStep
  <2>1. SUFFICES ASSUME TypeOK, WholeInv, WholeMessages, victim = "none", NEW p \in Sides
                 PROVE  rounds[p] <= rounds[Other(p)] + 1
    BY DEF InStep
  <2>2. unread[Other(p)] = SentMessages(Other(p)) - rounds[p]
    BY <2>1, TheOtherSide DEF WholeInv
  <2>3. rounds[p] \in Nat /\ rounds[Other(p)] \in Nat /\ unread[Other(p)] \in Nat
    BY <2>1, Counts, TheOtherSide
  <2>4. QED
    BY <2>2, <2>3 DEF SentMessages
<1>2. QED
  BY <1>1, CountsStayTyped, PairConsistent, PTL

\* Who leaves its loop has had every message, each of them whole, and leaves none
\* of the other's unread (socket_comm.c:15-31, :33-49).
THEOREM LeaversAreComplete == Spec => []LeavesComplete
<1>1. WholeInv => LeavesComplete
  BY DEF WholeInv, LeavesComplete, InLoop
<1>2. QED
  BY <1>1, PairConsistent, PTL

\* Neither SIGPIPE nor an error of recv ends a process unless the other one was
\* killed, whatever the messages and the sockets hold (socket_comm.py:18-50).
THEOREM DeathsComeFromOutside == Spec => []OnlyTheSurvivorSuffers
<1>1. FlowInv => OnlyTheSurvivorSuffers
  BY DEF FlowInv, OnlyTheSurvivorSuffers
<1>2. QED
  BY <1>1, PairConsistent, PTL

=============================================================================
