-------------------------- MODULE SendBenchProofs --------------------------
(***************************************************************************)
(* Safety of SendBench for any number of rounds, starts and kills, and any *)
(* choice of what may be killed.                                           *)
(***************************************************************************)
EXTENDS SendBench, TLAPS

-----------------------------------------------------------------------------
\* The children and their numbers.

\* What ChildrenInv says of one child, in the form the steps need.
LEMMA ChildFacts ==
  ASSUME ChildrenInv, NEW c \in Children
  PROVE  /\ child[c] \in Places /\ (child[c] # "none" => c <= last) /\ c \in Nat /\ c # NoChild
         /\ c \in ready \cup release => c <= last
  BY BenchAssumption DEF ChildrenInv, Children, NoChild

\* A child that lives has a number that was given out.
LEMMA LastIsAChild ==
  ASSUME ChildrenInv, last # NoChild
  PROVE  last \in Children
<1>1. num_runs \in Nat /\ MaxStarts \in Nat /\ starts \in 1 .. MaxStarts /\ last \in Nat
      /\ last <= starts * num_runs
  BY BenchAssumption DEF ChildrenInv
<1>2. starts * num_runs <= num_runs * MaxStarts
  BY <1>1
<1>3. starts * num_runs \in Nat /\ num_runs * MaxStarts \in Nat
  BY <1>1
<1>4. QED
  BY <1>1, <1>2, <1>3 DEF Children, NoChild

\* In a round there is a number for its child, and at a fork one for the next.
LEMMA NumbersLeft ==
  ASSUME ChildrenInv, parent = "fork", l < num_runs
  PROVE  /\ last + 1 \in Children /\ last + 1 <= (starts - 1) * num_runs + l + 1
         /\ last + 1 <= starts * num_runs
<1>1. /\ num_runs \in Nat /\ MaxStarts \in Nat /\ starts \in 1 .. MaxStarts /\ last \in Nat
      /\ l \in Nat /\ last <= (starts - 1) * num_runs + l
  BY BenchAssumption DEF ChildrenInv
<1>2. starts * num_runs = (starts - 1) * num_runs + num_runs
  BY <1>1
<1>3. (starts - 1) * num_runs \in Nat /\ starts * num_runs \in Nat
  BY <1>1
<1>4. last + 1 <= starts * num_runs /\ last + 1 <= (starts - 1) * num_runs + l + 1
  BY <1>1, <1>2, <1>3
<1>5. starts * num_runs <= num_runs * MaxStarts /\ num_runs * MaxStarts \in Nat
  BY <1>1
<1>6. last + 1 \in 1 .. num_runs * MaxStarts
  BY <1>1, <1>3, <1>4, <1>5
<1>7. QED
  BY <1>4, <1>6 DEF Children

\* A step of a child, or its death, concerns that child and what it holds.
LEMMA ChildKeepsChildren ==
  ASSUME ChildrenInv, NEW c \in Children, ChildStep(c) \/ KillChild(c)
  PROVE  ChildrenInv'
<1>f. child[c] # "none" /\ c <= last /\ c \in Nat /\ c # NoChild
  <2>1. child[c] # "none"
    BY DEF ChildStep, KillChild, Bind, Listen, Tell, Accept, ReadRelease, RemoveSock, ChildExit,
           Alive, Gone
  <2>2. QED
    BY <2>1, ChildFacts
<1>u. UNCHANGED <<parent, l, starts, last, clean, reached>>
  BY DEF ChildStep, KillChild, Bind, Listen, Tell, Accept, ReadRelease, RemoveSock, ChildExit,
         pipes, server, history
<1>p. \E place \in Places : child' = [child EXCEPT ![c] = place]
  BY DEF ChildStep, KillChild, Bind, Listen, Tell, Accept, ReadRelease, RemoveSock, ChildExit, At,
         Places, Serving, Gone
<1>1. child' \in [Children -> Places] /\ \A d \in Children : d # c => child'[d] = child[d]
  BY <1>p DEF ChildrenInv
<1>2. sock' \in 0 .. last
  <2>1. sock' \in {sock, c, NoChild} /\ sock \in 0 .. last /\ last \in Nat
    BY DEF ChildStep, KillChild, Bind, Listen, Tell, Accept, ReadRelease, RemoveSock, ChildExit,
           server, ChildrenInv
  <2>2. QED
    BY <2>1, <1>f DEF NoChild
<1>3. \A d \in Children : d > last => child'[d] = "none" /\ d \notin ready' \cup release'
  <2>1. ready' \subseteq ready \cup {c} /\ release' = release
    BY DEF ChildStep, KillChild, Bind, Listen, Tell, Accept, ReadRelease, RemoveSock, ChildExit,
           pipes
  <2>2. \A d \in Children : d > last => d # c
    BY <1>f DEF ChildrenInv, Children
  <2>3. QED
    BY <2>1, <2>2, <1>1 DEF ChildrenInv
<1>4. \A d \in listening' : d \in Children /\ child'[d] \notin Gone
  <2>1. listening' \subseteq listening \cup {c}
    BY DEF ChildStep, KillChild, Bind, Listen, Tell, Accept, ReadRelease, RemoveSock, ChildExit,
           server
  <2>2. c \in listening' => child'[c] \notin Gone
    BY DEF ChildStep, KillChild, Bind, Listen, Tell, Accept, ReadRelease, RemoveSock, ChildExit,
           server, At, ChildrenInv, Alive, Gone
  <2>3. QED
    BY <2>1, <2>2, <1>1 DEF ChildrenInv, Alive
<1>5. QED
  BY <1>u, <1>1, <1>2, <1>3, <1>4 DEF ChildrenInv, InRound, Alive

\* A step of the parent gives out at most one number, and there is one left.
LEMMA ParentKeepsChildren ==
  ASSUME ChildrenInv, ParentStep \/ ForkFails \/ KillParent \/ StartAgain
  PROVE  ChildrenInv'
<1>t. /\ num_runs \in Nat /\ MaxStarts \in Nat /\ starts \in 1 .. MaxStarts /\ last \in Nat
      /\ l \in 0 .. num_runs /\ num_runs > 0
  BY BenchAssumption DEF ChildrenInv
<1> USE DEF pipes, server, history, InRound
<1>1. CASE Fork
  <2>1. CASE l < num_runs
    <3>0. /\ parent = "fork" /\ parent' = "read" /\ last' = last + 1
          /\ child' = [child EXCEPT ![last + 1] = "bind"]
          /\ clean' = [clean EXCEPT ![last + 1] = (sock = NoChild /\ Orphans = {})]
          /\ UNCHANGED <<l, starts, listening, sock, ready, release, reached>>
      BY <1>1, <2>1 DEF Fork, At
    <3>1. last + 1 \in Children /\ last + 1 <= (starts - 1) * num_runs + l + 1
          /\ last + 1 <= starts * num_runs
      BY <3>0, <2>1, NumbersLeft
    <3>2. child' \in [Children -> Places] /\ clean' \in [Children -> BOOLEAN]
      BY <3>0, <3>1 DEF ChildrenInv, Places, Serving
    <3>3. \A c \in Children : c > last + 1 => child'[c] = "none" /\ c \notin ready \cup release
      BY <3>0, <3>1, <1>t DEF ChildrenInv, Children
    <3>4. \A c \in listening : c \in Children /\ child'[c] \notin Gone
      BY <3>0, <3>1 DEF ChildrenInv, Alive, Gone
    <3>5. sock \in 0 .. last + 1 /\ last + 1 > 0 /\ last + 1 \in Nat
      BY <1>t DEF ChildrenInv
    <3>6. QED
      BY <2>1, <3>0, <3>1, <3>2, <3>3, <3>4, <3>5 DEF ChildrenInv, Alive
  <2>2. CASE ~(l < num_runs)
    BY <1>1, <2>2 DEF Fork, ChildrenInv, Alive
  <2>3. QED
    BY <2>1, <2>2
<1>2. CASE ReadReady
  BY <1>2 DEF ReadReady, ChildrenInv, Alive
<1>3. CASE Connect
  <2>1. reached' \in [Children -> Children \cup {NoChild}]
    BY <1>3 DEF Connect, ChildrenInv
  <2>2. QED
    BY <1>3, <2>1 DEF Connect, ChildrenInv, Alive
<1>4. CASE SendAndRelease
  <2>1. \A c \in Children : c > last => c \notin ready' \cup release'
    BY <1>4, <1>t DEF SendAndRelease, ChildrenInv, Children
  <2>2. QED
    BY <1>4, <2>1 DEF SendAndRelease, ChildrenInv, Alive
<1>5. CASE Wait
  <2>1. l + 1 \in 0 .. num_runs /\ last <= (starts - 1) * num_runs + (l + 1)
    <3>1. l < num_runs /\ last <= (starts - 1) * num_runs + l + 1
      BY <1>5 DEF Wait, ChildrenInv
    <3>2. (starts - 1) * num_runs \in Nat
      BY <1>t
    <3>3. QED
      BY <1>t, <3>1, <3>2
  <2>2. QED
    BY <1>5, <2>1 DEF Wait, ChildrenInv, Alive
<1>6. CASE ForkFails \/ KillParent
  BY <1>6 DEF ForkFails, KillParent, ChildrenInv, Alive
<1>7. CASE StartAgain
  <2>1. starts + 1 \in 1 .. MaxStarts /\ l' = 0 /\ 0 \in 0 .. num_runs /\ starts' = starts + 1
        /\ last' = last /\ parent' = "fork"
    BY <1>7, <1>t DEF StartAgain
  <2>2. last <= ((starts + 1) - 1) * num_runs + 0
    <3>1. (starts + 1) - 1 = starts /\ last <= starts * num_runs /\ starts * num_runs \in Nat
      BY <1>t DEF ChildrenInv
    <3>2. QED
      BY <3>1
  <2>3. last <= (starts + 1) * num_runs
    <3>1. (starts + 1) * num_runs = starts * num_runs + num_runs /\ starts * num_runs \in Nat
      BY <1>t
    <3>2. QED
      BY <1>t, <3>1 DEF ChildrenInv
  <2>4. QED
    BY <1>7, <2>1, <2>2, <2>3 DEF StartAgain, ChildrenInv, Alive
<1>8. QED
  BY <1>1, <1>2, <1>3, <1>4, <1>5, <1>6, <1>7 DEF ParentStep

\* Every step.
LEMMA StepKeepsChildren ==
  ASSUME ChildrenInv, [Next]_vars
  PROVE  ChildrenInv'
<1>1. CASE UNCHANGED vars
  BY <1>1 DEF vars, pipes, server, history, ChildrenInv, InRound, Alive
<1>2. QED
  BY <1>1, ChildKeepsChildren, ParentKeepsChildren DEF Next

\* Children, their numbers and their sockets always fit.
LEMMA ChildrenFit == Spec => []ChildrenInv
<1>1. Init => ChildrenInv
  <2> SUFFICES ASSUME Init PROVE ChildrenInv
    OBVIOUS
  <2>1. /\ num_runs \in Nat /\ num_runs > 0 /\ 0 \in 0 .. num_runs /\ 1 \in 1 .. MaxStarts
        /\ 0 <= (1 - 1) * num_runs + 0 /\ 0 <= 1 * num_runs
    BY BenchAssumption
  <2>2. child \in [Children -> Places] /\ clean \in [Children -> BOOLEAN]
        /\ reached \in [Children -> Children \cup {NoChild}]
    BY DEF Init, Places, Gone
  <2>3. \A c \in Children : child[c] = "none"
    BY DEF Init
  <2>4. QED
    BY <2>1, <2>2, <2>3 DEF Init, ChildrenInv, InRound, NoChild
<1>2. ChildrenInv /\ [Next]_vars => ChildrenInv'
  BY StepKeepsChildren
<1>3. QED
  BY <1>1, <1>2, PTL DEF Spec

-----------------------------------------------------------------------------
\* Clean rounds.

\* A round under way has a child, and it is the last.
LEMMA RoundHasAChild ==
  ASSUME ChildrenInv, InRound
  PROVE  last \in Children /\ last # NoChild
  BY LastIsAChild DEF ChildrenInv, NoChild

\* The child of a clean round is alone; it goes on only over what CleanInv says.
LEMMA ChildKeepsClean ==
  ASSUME ChildrenInv, CleanInv, NEW c \in Children, ChildStep(c) \/ KillChild(c)
  PROVE  CleanInv'
<1>u. UNCHANGED <<parent, last, clean, reached, release>> /\ killed \subseteq killed'
  BY DEF ChildStep, KillChild, Bind, Listen, Tell, Accept, ReadRelease, RemoveSock, ChildExit,
         pipes, server, history
<1> SUFFICES ASSUME InRound, clean[last], last \notin killed'
             PROVE  CleanInv'
  BY <1>u DEF CleanInv, InRound
<1>1. last \in Children /\ child \in [Children -> Places]
  BY RoundHasAChild DEF ChildrenInv
<1>2. Alive(c)
  BY DEF ChildStep, KillChild, Bind, Listen, Tell, Accept, ReadRelease, RemoveSock, ChildExit,
         Alive, Gone
<1>3. /\ \A d \in Children : Alive(d) => d = last
      /\ child[last] = "bind" => sock = NoChild
      /\ child[last] \in {"listen", "tell", "accept", "read"} => sock = last
      /\ child[last] \in {"tell", "accept", "read"} => last \in listening
      /\ parent # "wait" => child[last] \in Serving /\ last \notin release
      /\ last \in ready => child[last] \notin {"bind", "listen", "tell"}
      /\ parent = "connect" => last \in ready
      /\ parent \in {"send", "wait"} => reached[last] = last
  BY <1>u DEF CleanInv
<1>4. c = last /\ c \notin Orphans
  BY <1>1, <1>2, <1>3 DEF Orphans, InRound, ParentGone
<1>5. \A d \in Children : child'[d] \notin Gone => d = last
  <2>1. \A d \in Children : d # c => child'[d] = child[d]
    BY <1>1 DEF ChildStep, KillChild, Bind, Listen, Tell, Accept, ReadRelease, RemoveSock,
                ChildExit, At
  <2>2. QED
    BY <2>1, <1>3, <1>4 DEF Alive
<1> USE <1>u, <1>1, <1>3, <1>4, <1>5 DEF CleanInv, Alive, At, Serving, Gone, server, pipes
<1>6. CASE Bind(c)
  BY <1>6 DEF Bind
<1>7. CASE Listen(c)
  BY <1>7 DEF Listen
<1>8. CASE Tell(c)
  BY <1>8 DEF Tell
<1>9. CASE Accept(c)
  BY <1>9 DEF Accept
<1>10. CASE ReadRelease(c)
  BY <1>10 DEF ReadRelease
<1>11. CASE RemoveSock(c)
  BY <1>11 DEF RemoveSock
<1>12. CASE ChildExit(c)
  BY <1>12 DEF ChildExit
<1>13. CASE KillChild(c)
  BY <1>13 DEF KillChild
<1>14. QED
  BY <1>6, <1>7, <1>8, <1>9, <1>10, <1>11, <1>12, <1>13 DEF ChildStep

\* The parent of a clean round waits for the byte, so it finds the child listening.
LEMMA ParentKeepsClean ==
  ASSUME ChildrenInv, CleanInv, ParentStep \/ ForkFails \/ KillParent \/ StartAgain
  PROVE  CleanInv'
<1>1. CASE Fork
  <2>1. CASE l < num_runs
    <3>0. /\ parent = "fork" /\ parent' = "read" /\ last' = last + 1
          /\ child' = [child EXCEPT ![last + 1] = "bind"]
          /\ clean' = [clean EXCEPT ![last + 1] = (sock = NoChild /\ Orphans = {})]
          /\ UNCHANGED <<sock, ready, release>>
      BY <1>1, <2>1 DEF Fork, At, server, pipes
    <3>1. last + 1 \in Children /\ last \in Nat
      BY <3>0, <2>1, NumbersLeft DEF ChildrenInv
    <3>2. child \in [Children -> Places] /\ clean \in [Children -> BOOLEAN]
          /\ last + 1 \notin ready \cup release
      BY <3>1 DEF ChildrenInv
    <3>3. child'[last + 1] = "bind" /\ \A c \in Children : c # last + 1 => child'[c] = child[c]
      BY <3>0, <3>1, <3>2
    <3>4. clean'[last + 1] => sock = NoChild /\ \A c \in Children : ~Alive(c)
      BY <3>0, <3>1, <3>2 DEF Orphans
    <3>5. QED
      BY <3>0, <3>2, <3>3, <3>4 DEF CleanInv, Alive, Serving
  <2>2. CASE ~(l < num_runs)
    BY <1>1, <2>2 DEF Fork, CleanInv, InRound
  <2>3. QED
    BY <2>1, <2>2
<1>2. CASE ReadReady
  BY <1>2 DEF ReadReady, CleanInv, InRound, server, pipes, history, Alive, Serving, Gone
<1>3. CASE Connect
  <2>1. last \in Children /\ reached \in [Children -> Children \cup {NoChild}]
    BY <1>3, RoundHasAChild DEF Connect, InRound, ChildrenInv
  <2>2. CASE clean[last] /\ last \notin killed
    <3>1. last \in ready /\ child[last] \in Serving /\ last \notin release
          /\ child[last] \notin {"bind", "listen", "tell"}
      BY <1>3, <2>2 DEF Connect, CleanInv, InRound
    <3>2. sock = last /\ last \in listening
      BY <1>3, <2>2, <3>1 DEF Connect, CleanInv, InRound, Serving
    <3>3. reached'[last] = last
      BY <1>3, <2>1, <3>2 DEF Connect
    <3>4. QED
      BY <1>3, <2>2, <3>3 DEF Connect, CleanInv, InRound, pipes, history, Alive
  <2>3. CASE ~(clean[last] /\ last \notin killed)
    BY <1>3, <2>3 DEF Connect, CleanInv, InRound, history
  <2>4. QED
    BY <2>2, <2>3
<1>4. CASE SendAndRelease
  BY <1>4 DEF SendAndRelease, CleanInv, InRound, server, history, Alive
<1>5. CASE Wait
  BY <1>5 DEF Wait, CleanInv, InRound
<1>6. CASE ForkFails \/ KillParent \/ StartAgain
  BY <1>6 DEF ForkFails, KillParent, StartAgain, CleanInv, InRound
<1>7. QED
  BY <1>1, <1>2, <1>3, <1>4, <1>5, <1>6 DEF ParentStep

\* Every step.
LEMMA StepKeepsClean ==
  ASSUME ChildrenInv, CleanInv, [Next]_vars
  PROVE  CleanInv'
<1>1. CASE UNCHANGED vars
  BY <1>1 DEF vars, pipes, server, history, CleanInv, InRound, Alive
<1>2. QED
  BY <1>1, ChildKeepsClean, ParentKeepsClean DEF Next

\* A round that begins with no name in the way and no child left over, and whose
\* own child is not killed, reaches the socket of that child (send.c:85, :114),
\* whatever is killed before it, and even when its parent or others are killed.
THEOREM CleanRoundsConnect == Spec => []CleanRoundConnects
<1>1. Init => CleanInv
  BY DEF Init, CleanInv, InRound
<1>2. ChildrenInv /\ CleanInv /\ [Next]_vars => CleanInv'
  BY StepKeepsClean
<1>3. CleanInv => CleanRoundConnects
  BY DEF CleanInv, CleanRoundConnects, InRound
<1>4. QED
  BY <1>1, <1>2, <1>3, ChildrenFit, PTL DEF Spec

-----------------------------------------------------------------------------
\* Rounds after a child's death.

\* Only the child of the round lives, so nobody else connects or takes a name.
LEMMA ChildKeepsHeal ==
  ASSUME ChildrenInv, HealInv, NEW c \in Children, ChildStep(c) \/ KillChild(c)
  PROVE  HealInv'
<1>u. UNCHANGED <<parent, last, reached>> /\ killed \subseteq killed'
  BY DEF ChildStep, KillChild, Bind, Listen, Tell, Accept, ReadRelease, RemoveSock, ChildExit,
         pipes, server, history
<1> SUFFICES ASSUME NoChild \notin killed'
             PROVE  HealInv'
  BY DEF HealInv, RoundsHeal
<1>1. Alive(c)
  BY DEF ChildStep, KillChild, Bind, Listen, Tell, Accept, ReadRelease, RemoveSock, ChildExit,
         Alive, Gone
<1>2. /\ \A d \in Children : reached[d] \in {NoChild, d}
      /\ \A d \in Children : Alive(d) => d = last /\ InRound
      /\ child[last] \in {"exit", "exited"} => sock = NoChild
      /\ c = last /\ InRound /\ last # NoChild
  BY <1>u, <1>1, ChildFacts DEF HealInv, RoundsHeal
<1>3. \A d \in Children : child'[d] \notin Gone => d = last
  <2>1. \A d \in Children : d # c => child'[d] = child[d]
    BY DEF ChildrenInv, ChildStep, KillChild, Bind, Listen, Tell, Accept, ReadRelease, RemoveSock,
           ChildExit, At
  <2>2. QED
    BY <2>1, <1>2 DEF Alive
<1>4. child'[last] \in {"exit", "exited"} => sock' = NoChild
  <2>1. child \in [Children -> Places]
    BY DEF ChildrenInv
  <2>2. QED
    BY <2>1, <1>2 DEF ChildStep, KillChild, Bind, Listen, Tell, Accept, ReadRelease, RemoveSock,
                      ChildExit, At, server
<1>5. QED
  BY <1>u, <1>2, <1>3, <1>4 DEF HealInv, RoundsHeal, InRound, Alive

\* The parent reaches only a living child, and fails to send only to a dead one.
LEMMA ParentKeepsHeal ==
  ASSUME ChildrenInv, HealInv, ParentStep \/ ForkFails \/ KillParent \/ StartAgain
  PROVE  HealInv'
<1>u. killed \subseteq killed'
  BY DEF ParentStep, Fork, ReadReady, Connect, SendAndRelease, Wait, ForkFails, KillParent,
         StartAgain, history
<1> SUFFICES ASSUME NoChild \notin killed'
             PROVE  HealInv'
  BY DEF HealInv, RoundsHeal
<1>h. /\ \A c \in Children : reached[c] \in {NoChild, c}
      /\ \A c \in Children : Alive(c) => c = last /\ InRound
      /\ last # NoChild /\ child[last] \in {"exit", "exited"} => sock = NoChild
  BY <1>u DEF HealInv, RoundsHeal
<1>1. CASE Fork
  <2>0. \A c \in Children : ~Alive(c)
    BY <1>1, <1>h DEF Fork, InRound
  <2>1. CASE l < num_runs
    <3>0. /\ parent = "fork" /\ parent' = "read" /\ last' = last + 1
          /\ child' = [child EXCEPT ![last + 1] = "bind"] /\ reached' = reached
      BY <1>1, <2>1 DEF Fork, At
    <3>1. last + 1 \in Children /\ child \in [Children -> Places]
      BY <3>0, <2>1, NumbersLeft DEF ChildrenInv
    <3>2. child'[last + 1] = "bind" /\ \A c \in Children : c # last + 1 => child'[c] = child[c]
      BY <3>0, <3>1
    <3>3. QED
      BY <3>0, <3>2, <2>0, <1>h DEF HealInv, RoundsHeal, InRound, Alive
  <2>2. CASE ~(l < num_runs)
    BY <1>1, <2>0, <2>2, <1>h DEF Fork, HealInv, RoundsHeal, Alive, server
  <2>3. QED
    BY <2>1, <2>2
<1>2. CASE ReadReady
  BY <1>2, <1>h DEF ReadReady, HealInv, RoundsHeal, InRound, Alive, server
<1>3. CASE Connect
  <2>1. last \in Children /\ reached \in [Children -> Children \cup {NoChild}]
    BY <1>3, RoundHasAChild DEF Connect, InRound, ChildrenInv
  <2>2. sock \in listening => sock = last
    BY <1>h DEF ChildrenInv
  <2>3. \A c \in Children : reached'[c] \in {NoChild, c}
    BY <1>3, <1>h, <2>1, <2>2 DEF Connect
  <2>4. QED
    BY <1>3, <1>h, <2>3 DEF Connect, HealInv, RoundsHeal, InRound, Alive
<1>4. CASE SendAndRelease
  <2>1. last \in Children
    BY <1>4, RoundHasAChild DEF SendAndRelease, InRound
  <2>2. CASE parent' = "wait"
    BY <1>4, <2>2, <1>h DEF SendAndRelease, HealInv, RoundsHeal, InRound, Alive, server
  <2>3. CASE parent' # "wait"
    <3>1. ~Alive(last) /\ parent' = "killed"
      BY <1>4, <2>1, <2>3, <1>h DEF SendAndRelease
    <3>2. QED
      BY <1>4, <3>1, <1>h DEF SendAndRelease, HealInv, RoundsHeal, Alive, server
  <2>4. QED
    BY <2>2, <2>3
<1>5. CASE Wait
  BY <1>5, <1>h DEF Wait, HealInv, RoundsHeal, InRound, Alive, server
<1>6. CASE ForkFails
  BY <1>6, <1>h DEF ForkFails, HealInv, RoundsHeal, InRound, Alive, server
<1>7. CASE KillParent
  BY <1>7 DEF KillParent
<1>8. CASE StartAgain
  BY <1>8, <1>h DEF StartAgain, ParentGone, HealInv, RoundsHeal, InRound, Alive, server
<1>9. QED
  BY <1>1, <1>2, <1>3, <1>4, <1>5, <1>6, <1>7, <1>8 DEF ParentStep

\* Every step.
LEMMA StepKeepsHeal ==
  ASSUME ChildrenInv, HealInv, [Next]_vars
  PROVE  HealInv'
<1>1. CASE UNCHANGED vars
  BY <1>1 DEF vars, pipes, server, history, HealInv, RoundsHeal, InRound, Alive
<1>2. QED
  BY <1>1, ChildKeepsHeal, ParentKeepsHeal DEF Next

\* While no parent is killed, children may be killed and names found in the way:
\* no round reaches another's socket, and a round whose child ends by itself
\* leaves no name behind (send.c:98).
THEOREM RoundsAlwaysHeal == Spec => []RoundsHeal
<1>1. Init => HealInv
  BY DEF Init, HealInv, RoundsHeal, Alive, Gone
<1>2. ChildrenInv /\ HealInv /\ [Next]_vars => HealInv'
  BY StepKeepsHeal
<1>3. HealInv => RoundsHeal
  BY DEF HealInv
<1>4. QED
  BY <1>1, <1>2, <1>3, ChildrenFit, PTL DEF Spec
=============================================================================
