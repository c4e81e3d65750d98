---------------------------- MODULE LexicalScoping ----------------------------
(***************************************************************************)
(* What closures promise to a program.  Every execution of a declaration   *)
(* makes a new variable.  A closure names the variables that its function  *)
(* mentions, not their values: whoever can name a variable sees every      *)
(* assignment to it, for as long as anyone can name it.                    *)
(***************************************************************************)
EXTENDS Integers, Sequences

VARIABLES
  frames,     (* activations: the local variables and the captured ones     *)
  closures,   (* for each closure, the variables it has captured            *)
  store       (* the value of every variable that can be named              *)

vars == <<frames, closures, store>>

Init == frames = <<>> /\ closures = <<>> /\ store = <<>>

InSeq(s) == {s[j] : j \in DOMAIN s}

Named(fs, cs) ==
  (UNION {InSeq(fs[j].locals) \cup InSeq(fs[j].captured) : j \in DOMAIN fs})
  \cup (UNION {InSeq(cs[f]) : f \in DOMAIN cs})

Current == frames[Len(frames)]
Visible == InSeq(Current.locals) \cup InSeq(Current.captured)
WithLocals(ls) == [frames EXCEPT ![Len(frames)].locals = ls]

(* A variable goes when nobody can name it; the others keep their values.  *)
Kept ==
  /\ DOMAIN store' = Named(frames', closures')
  /\ \A v \in DOMAIN store \cap DOMAIN store' : store'[v] = store[v]

(* The next two name variables that nobody could name before.              *)
Declare ==
  /\ frames # <<>>
  /\ \E v \in DOMAIN store' \ DOMAIN store : frames' = WithLocals(Append(Current.locals, v))
  /\ Kept
  /\ UNCHANGED closures

Call ==
  LET new == frames'[Len(frames')]
  IN /\ Len(frames') = Len(frames) + 1
     /\ frames' = Append(frames, new)
     /\ new.captured \in {<<>>} \cup {closures[f] : f \in DOMAIN closures}
     /\ InSeq(new.locals) \cap DOMAIN store = {}
     /\ \A j, k \in DOMAIN new.locals : new.locals[j] = new.locals[k] => j = k
     /\ Kept
     /\ UNCHANGED closures

(* The innermost variables of the activation go out of scope.              *)
Leave ==
  /\ frames # <<>>
  /\ \E n \in 0..(Len(Current.locals) - 1) :
       frames' = WithLocals(SubSeq(Current.locals, 1, n))
  /\ Kept
  /\ UNCHANGED closures

Assign ==
  /\ frames # <<>>
  /\ UNCHANGED <<frames, closures>>
  /\ DOMAIN store' = DOMAIN store
  /\ \E v \in Visible : \A w \in DOMAIN store : w # v => store'[w] = store[w]

MakeClosure ==
  /\ frames # <<>>
  /\ \E f \in DOMAIN closures' \ DOMAIN closures :
       /\ DOMAIN closures' = DOMAIN closures \cup {f}
       /\ InSeq(closures'[f]) \subseteq Visible
  /\ \A f \in DOMAIN closures : closures'[f] = closures[f]
  /\ Kept
  /\ UNCHANGED frames

(* An activation returns, or an error ends them all.                       *)
Return ==
  /\ frames # <<>>
  /\ frames' \in {SubSeq(frames, 1, Len(frames) - 1), <<>>}
  /\ Kept
  /\ UNCHANGED closures

Forget ==
  /\ DOMAIN closures' \subseteq DOMAIN closures
  /\ closures' = [f \in DOMAIN closures' |-> closures[f]]
  /\ Kept
  /\ UNCHANGED frames

Next == Declare \/ Call \/ Leave \/ Assign \/ MakeClosure \/ Return \/ Forget

Spec == Init /\ [][Next]_vars
=============================================================================
