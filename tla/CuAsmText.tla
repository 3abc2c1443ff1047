------------------------------ MODULE CuAsmText ------------------------------
(***************************************************************************)
(* The lines of a .cuasm file, each a record with the fields of its        *)
(* directive, as the assembler reads and the disassembler writes them.     *)
(***************************************************************************)
EXTENDS CachePolicy, Sequences

\* .section with its type, and a kernel's with its register count; .align,
\* .zero, a label, a label of an info attribute, .size, .__segment.
Sec(name, type) == [op |-> "section", name |-> name, type |-> type, regs |-> -1]
Text(k, regs) == [Sec(<<".text", k>>, "PROGBITS") EXCEPT !.regs = regs]
Al(n) == [op |-> "align", n |-> n]
Zr(n) == [op |-> "zero", n |-> n]
Lab(name) == [op |-> "label", name |-> name]
Off(k, attr) == [op |-> "offset", kernel |-> k, attr |-> attr]
Siz(name, e) == [op |-> "size", name |-> name, expr |-> e]
Seg(type, first, last) == [op |-> "segment", type |-> type, first |-> first, last |-> last]

\* a, a + n and a - b.
Ref(a) == [a |-> a, op |-> "", b |-> "", n |-> 0]
Plus(a, n) == [Ref(a) EXCEPT !.op = "+", !.n = n]
Minus(a, b) == [Ref(a) EXCEPT !.op = "-", !.b = b]

\* Data of len bytes: a number, the head of an attribute, an entry of .symtab
\* with its value, or an expression in one of its forms.
Dat(len, head, n, form, e) == [op |-> "data", len |-> len, head |-> head, n |-> n, form |-> form, expr |-> e]
Hex(len, n) == Dat(len, "", n, "hex", Ref(""))
AttrHead(name) == Dat(2, name, 0, "hex", Ref(""))
Sym(name, value) == Dat(24, name, value, "hex", Ref(""))
Fix(len, form, e) == Dat(len, "", 0, form, e)

\* An instruction behind its control code; open: of a bundle, the first; with
\* the descriptor its text shows.
Ins(ins, ctrl) ==
  [op |-> "code", ins |-> ins, ctrl |-> ctrl, ref |-> "none", expr |-> Ref(""), open |-> FALSE, desc |-> NoDesc]
InsRef(ins, ctrl, ref, e) == [Ins(ins, ctrl) EXCEPT !.ref = ref, !.expr = e]
==============================================================================
