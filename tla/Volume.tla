------------------------------- MODULE Volume -------------------------------
(***************************************************************************)
(* What a volume promises its callers.  tree is what a mount would find on *)
(* the disk at this moment, so what it holds survives a power failure.  A  *)
(* call may change it in steps, but only for its own object; when the call *)
(* returns FR_OK its whole effect is there, and when it returns an error   *)
(* nothing has changed.                                                    *)
(***************************************************************************)
EXTENDS Integers, Sequences

CONSTANTS Paths, Docs, DocLen(_), NoOp

VARIABLES tree, op, res

vars == <<tree, op, res>>

Result(code, data) == [code |-> code, data |-> data]

Absent == [k |-> "absent"]
Dir == [k |-> "dir"]
File(data) == [k |-> "file", data |-> data]
DocText(d, n) == [u \in 1..n |-> [k |-> "text", doc |-> d, unit |-> u - 1]]

(* The objects at and below p, seen at and below q as well. *)
Copied(t, p, q) ==
  [x \in Paths |->
     IF Len(x) >= Len(q) /\ SubSeq(x, 1, Len(q)) = q
     THEN LET y == p \o SubSeq(x, Len(q) + 1, Len(x))
          IN IF y \in Paths THEN t[y] ELSE Absent
     ELSE t[x]]

Dropped(t, p) ==
  [x \in Paths |-> IF Len(x) >= Len(p) /\ SubSeq(x, 1, Len(p)) = p THEN Absent ELSE t[x]]

(* What a step of the call may leave on the disk. *)
Effects(t) ==
  CASE op.kind = "save" ->
         {[t EXCEPT ![op.path] = File(<<>>)]}
           \cup (IF t[op.path] = File(<<>>)
                 THEN {[t EXCEPT ![op.path] = File(DocText(op.doc, n))] : n \in 1..DocLen(op.doc)}
                 ELSE {})
    [] op.kind = "mkdir" -> {[t EXCEPT ![op.path] = Dir]}
    [] op.kind = "unlink" -> {Dropped(t, op.path)}
    [] op.kind = "rename" ->
         IF op.to = op.path THEN {}
         ELSE {Copied(t, op.path, op.to), Dropped(t, op.path),
               Dropped(Copied(t, op.path, op.to), op.path)}

Complete(t) ==
  CASE op.kind = "save" -> \E n \in 0..DocLen(op.doc) : t[op.path] = File(DocText(op.doc, n))
    [] op.kind = "mkdir" -> t[op.path] = Dir
    [] op.kind = "unlink" -> t[op.path] = Absent
    [] op.kind = "rename" -> t[op.to] # Absent /\ (op.to # op.path => t[op.path] = Absent)

(* A call fails before it has touched its object. *)
Untouched(t) ==
  CASE op.kind \in {"save", "mkdir"} -> t[op.path] = Absent
    [] op.kind = "rename" -> t[op.path] # Absent /\ (op.to # op.path => t[op.to] = Absent)
    [] OTHER -> FALSE

Init ==
  /\ tree = [p \in Paths |-> Absent]
  /\ op = NoOp
  /\ res = Result("none", <<>>)

Accept == op = NoOp /\ op' # NoOp /\ UNCHANGED <<tree, res>>

Reject ==
  /\ op = NoOp
  /\ \E code \in {"FR_NO_PATH", "FR_NO_FILE", "FR_EXIST", "FR_DENIED"} : res' = Result(code, <<>>)
  /\ UNCHANGED <<tree, op>>

(* What a reader gets is what is on the disk. *)
Read ==
  /\ op = NoOp
  /\ \E p \in Paths : tree[p].k = "file" /\ res' = Result("FR_OK", tree[p].data)
  /\ UNCHANGED <<tree, op>>

Effect == op # NoOp /\ tree' \in Effects(tree) /\ UNCHANGED <<op, res>>

Succeed ==
  /\ op # NoOp
  /\ tree' \in Effects(tree) \cup {tree}
  /\ Complete(tree')
  /\ op' = NoOp
  /\ res' = Result("FR_OK", <<>>)

Fail ==
  /\ op # NoOp
  /\ Untouched(tree)
  /\ op' = NoOp
  /\ res' = Result("FR_DENIED", <<>>)
  /\ UNCHANGED tree

PowerFails == op' = NoOp /\ res' = Result("none", <<>>) /\ UNCHANGED tree

Next == Accept \/ Read \/ Reject \/ Effect \/ Succeed \/ Fail \/ PowerFails

Spec == Init /\ [][Next]_vars

=============================================================================
