-------------------------------- MODULE CAst --------------------------------
(***************************************************************************)
(* The syntax tree of src/src/fe/ast.h: a node has a kind, the operator,   *)
(* name, literal or type the parser stored in it, its children in order,   *)
(* and the type sema gives it (empty until then).                          *)
(*                                                                         *)
(* A type is a sequence of words: <<"int">>, <<"ptr", "int">> for int *,   *)
(* <<"arr", "int">> for an array of ints.                                  *)
(***************************************************************************)
EXTENDS Integers, Sequences

Node(k, op, kids) == [k |-> k, op |-> op, kids |-> kids, st |-> <<>>]

None == Node("none", "", <<>>)
IsNone(n) == n.k = "none"
HasKid(n, i) == Len(n.kids) >= i /\ ~IsNone(n.kids[i])

(* A declaration's op is [name, ty, q, dim]: its qualifiers and, for an array,
   the expression between the brackets. *)
IsConstDecl(n) == n.op.q \cap {"const", "constexpr"} # {} /\ IsNone(n.op.dim)

AssignOps == {"+=", "-=", "*=", "/=", "%=", "&=", "|=", "^=", "<<=", ">>="}

(* compound_base: the operator an assignment operator applies. *)
CompoundBase(op) ==
    CASE op = "+=" -> "+" [] op = "-=" -> "-" [] op = "*=" -> "*" [] op = "/=" -> "/"
      [] op = "%=" -> "%" [] op = "&=" -> "&" [] op = "|=" -> "|" [] op = "^=" -> "^"
      [] op = "<<=" -> "<<" [] op = ">>=" -> ">>"

Comparisons == {"==", "!=", "<", ">", "<=", ">="}
=============================================================================
