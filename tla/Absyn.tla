---------------------------------- MODULE Absyn ----------------------------------
(***************************************************************************)
(* The constructors of abstract syntax (absyn.c), as records with a kind   *)
(* k, and what tiger.y makes of the operators that have no node of their   *)
(* own.  Names are strings, a missing type is "", a missing expression is  *)
(* Unit, the null pointer.  esc is what Esc_findEscape leaves in a         *)
(* declaration: 0 if the variable does not escape, and otherwise the slot  *)
(* of the frame that it gets.                                              *)
(***************************************************************************)

Unit == [k |-> "unit"]

A_SimpleVar(x) == [k |-> "simple", x |-> x]
A_FieldVar(v, f) == [k |-> "field", v |-> v, f |-> f]
A_SubscriptVar(v, e) == [k |-> "subscript", v |-> v, e |-> e]

A_VarExp(v) == [k |-> "var", v |-> v]
A_NilExp == [k |-> "nil"]
A_IntExp(n) == [k |-> "int", n |-> n]
A_StringExp(s) == [k |-> "string", s |-> s]
A_CallExp(f, args) == [k |-> "call", f |-> f, args |-> args]
A_OpExp(op, l, r) == [k |-> "op", op |-> op, l |-> l, r |-> r]
A_RecordExp(typ, fields) == [k |-> "record", typ |-> typ, fields |-> fields]
A_SeqExp(es) == [k |-> "seq", es |-> es]
A_AssignExp(v, e) == [k |-> "assign", v |-> v, e |-> e]
A_IfExp(c, t, e) == [k |-> "if", c |-> c, t |-> t, e |-> e]
A_WhileExp(c, b) == [k |-> "while", c |-> c, b |-> b]
A_ForExp(x, esc, lo, hi, b) ==
  [k |-> "for", x |-> x, esc |-> esc, lo |-> lo, hi |-> hi, b |-> b]
A_BreakExp == [k |-> "break"]
A_LetExp(ds, b) == [k |-> "let", ds |-> ds, b |-> b]
A_ArrayExp(typ, n, e) == [k |-> "array", typ |-> typ, size |-> n, init |-> e]

A_FunctionDec(fs) == [k |-> "fun", fs |-> fs]
A_VarDec(x, typ, e, esc) == [k |-> "vardec", x |-> x, typ |-> typ, init |-> e, esc |-> esc]
A_TypeDec(ts) == [k |-> "types", ts |-> ts]

A_NameTy(n) == [k |-> "nameTy", n |-> n]
A_RecordTy(fields) == [k |-> "recordTy", fields |-> fields]
A_ArrayTy(n) == [k |-> "arrayTy", n |-> n]

A_Field(name, typ, esc) == [name |-> name, typ |-> typ, esc |-> esc]
A_Fundec(name, params, result, body) ==
  [name |-> name, params |-> params, result |-> result, body |-> body]
A_Namety(name, ty) == [name |-> name, ty |-> ty]
A_Efield(name, e) == [name |-> name, e |-> e]

Negation(e) == A_OpExp("minus", A_IntExp(0), e)
AND(l, r) == A_IfExp(l, r, A_IntExp(0))
OR(l, r) == A_IfExp(l, A_IntExp(1), r)
===============================================================================
