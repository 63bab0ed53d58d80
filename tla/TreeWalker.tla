----------------------------- MODULE TreeWalker -----------------------------
(***************************************************************************)
(* The tree walker of mc_control::ControllerClient: handle_gui_state,     *)
(* handle_category, handle_widget and handle_form walk one GUI document    *)
(* and call the subclass's handlers (src/include/mc_control/               *)
(* ControllerClient.h).  The walk itself is in the implementation file,   *)
(* which is not in the repository, so it follows spec.md 4.2: a category  *)
(* is announced before anything in it, items in the document's order; a   *)
(* leaf is dispatched on its type; a Form then has each field dispatched; *)
(* a malformed "GUI" entry is skipped with its subtree.  Which handler a  *)
(* dispatch reaches is the header's: a widget kind the subclass does not  *)
(* override runs default_impl(kind, id), a form field kind it does not    *)
(* override runs an empty body.  The walk is a stack of pending items, so *)
(* each callback is one step.                                              *)
(*                                                                         *)
(* A node is a record [type, name, kind, items, fields]: type "cat" (a    *)
(* category, with its items), "leaf" (a widget of the given kind, with    *)
(* its form fields when the kind is "Form") or "bad" (a "GUI" entry that  *)
(* is not an object).  A field is a record [name, kind].                   *)
(***************************************************************************)
EXTENDS Integers, Sequences, FiniteSets, SequencesExt

CONSTANTS
  Documents,         \* the documents walked: sequences of top-level nodes
  WidgetOverridden,  \* the widget kinds the subclass overrides
  FieldOverridden    \* the form field kinds the subclass overrides

VARIABLES
  doc,               \* the document being walked
  stack,             \* pending items <<path, node>>, next first
  events             \* the handler calls made so far, in order

vars == <<doc, stack, events>>

-----------------------------------------------------------------------------
(* The handler a widget of kind k at id <<path, name>> reaches: the        *)
(* subclass's override, or the virtual's default body default_impl(k, id). *)
Dispatch(k, path, name) ==
  IF k \in WidgetOverridden THEN <<"widget", k, path, name>>
                            ELSE <<"default", k, path, name>>

(* The form_* handler a field reaches: the override, or an empty body that *)
(* leaves no trace.                                                         *)
FieldDispatch(k, path, form, name) ==
  IF k \in FieldOverridden THEN << <<"field", k, path, form, name>> >>
                           ELSE << >>

(* The items of a node list, all under one path.                            *)
Under(path, nodes) == [j \in 1..Len(nodes) |-> <<path, nodes[j]>>]

(* The fields of a form, as pending items.                                  *)
FieldItems(path, n) ==
  [j \in 1..Len(n.fields) |-> <<path, [type |-> "field", name |-> n.fields[j].name,
                                       kind |-> n.fields[j].kind, form |-> n.name]>>]

Top  == Head(stack)[2]
Path == Head(stack)[1]

Init ==
  /\ doc \in Documents
  /\ stack = Under(<< >>, doc)
  /\ events = << >>

(* Mutant: a category's items are walked after its siblings.              *)
WalkCategoryBreadthFirst ==
  /\ stack # << >> /\ Top.type = "cat"
  /\ events' = Append(events, <<"category", Path, Top.name>>)
  /\ stack' = Tail(stack) \o Under(Append(Path, Top.name), Top.items)
  /\ UNCHANGED doc

(* handle_category: category(parent, name), then the category's items.    *)
WalkCategory ==
  /\ stack # << >> /\ Top.type = "cat"
  /\ events' = Append(events, <<"category", Path, Top.name>>)
  /\ stack' = Under(Append(Path, Top.name), Top.items) \o Tail(stack)
  /\ UNCHANGED doc

(* handle_widget: the handler of the leaf's type; for a Form, handle_form  *)
(* then goes through its fields.                                            *)
WalkLeaf ==
  /\ stack # << >> /\ Top.type = "leaf"
  /\ events' = Append(events, Dispatch(Top.kind, Path, Top.name))
  /\ stack' = (IF Top.kind = "Form" THEN FieldItems(Path, Top) ELSE << >>)
              \o Tail(stack)
  /\ UNCHANGED doc

(* handle_form: one form_* call for the field.                              *)
WalkField ==
  /\ stack # << >> /\ Top.type = "field"
  /\ events' = events \o FieldDispatch(Top.kind, Path, Top.form, Top.name)
  /\ stack' = Tail(stack)
  /\ UNCHANGED doc

(* A malformed "GUI" entry: the subtree is skipped, the siblings are not.  *)
SkipMalformed ==
  /\ stack # << >> /\ Top.type = "bad"
  /\ stack' = Tail(stack)
  /\ UNCHANGED <<doc, events>>

Next == WalkCategory \/ WalkLeaf \/ WalkField \/ SkipMalformed

Spec == Init /\ [][Next]_vars /\ WF_vars(Next)

Done == stack = << >>

-----------------------------------------------------------------------------
(* Properties                                                               *)

(* The calls the walk of spec.md 4.2 makes for a node under path, and for *)
(* a list of nodes: a category's call, then its items' calls in order; a *)
(* leaf's call, then its form fields' calls.                                *)
RECURSIVE CallsOf(_, _), NodeCalls(_, _)
NodeCalls(path, n) ==
  CASE n.type = "cat"  -> << <<"category", path, n.name>> >>
                          \o CallsOf(Append(path, n.name), n.items)
    [] n.type = "leaf" -> << Dispatch(n.kind, path, n.name) >>
                          \o FlattenSeq([j \in 1..Len(n.fields) |->
                                 FieldDispatch(n.fields[j].kind, path, n.name,
                                               n.fields[j].name)])
    [] OTHER           -> << >>
CallsOf(path, ns) == FlattenSeq([j \in 1..Len(ns) |-> NodeCalls(path, ns[j])])

(* Category callbacks fire in pre-order: the calls made so far are always *)
(* the beginning of the reference walk, a category before anything in it *)
(* and siblings in document order, and a finished walk made all of them.  *)
WalkInPreOrder ==
  /\ IsPrefix(events, CallsOf(<< >>, doc))
  /\ Done => events = CallsOf(<< >>, doc)

=============================================================================
