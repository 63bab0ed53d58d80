---------------------------- MODULE MC_TreeWalker ----------------------------
(* Small GUI documents for TreeWalker: a "Status" category holding up to   *)
(* two distinct items (a label, a button, a form, a malformed entry, a     *)
(* subcategory, or a subcategory holding a further category before a      *)
(* sibling), alone or followed by a "Ctrl" category, and the empty         *)
(* document of the stale signal.                                            *)
EXTENDS TreeWalker

Cat(n, its) == [type |-> "cat", name |-> n, kind |-> "", items |-> its, fields |-> << >>]

FormFields == << [name |-> "confirm", kind |-> "checkbox"],
                 [name |-> "target", kind |-> "data_combo"] >>

Leaf(n, k) == [type |-> "leaf", name |-> n, kind |-> k, items |-> << >>,
               fields |-> IF k = "Form" THEN FormFields ELSE << >>]

Bad == [type |-> "bad", name |-> "GUI", kind |-> "", items |-> << >>, fields |-> << >>]

ItemChoices == {Leaf("battery", "Label"), Leaf("go", "Button"), Leaf("cmd", "Form"),
                Bad, Cat("Sub", << Leaf("battery", "Label") >>),
                Cat("Sub", << Cat("Deep", << Leaf("cmd", "Form"), Bad >>),
                              Leaf("go", "Button") >>)}

Items == {<< >>} \cup {<<a>> : a \in ItemChoices}
         \cup {ab \in ItemChoices \X ItemChoices : ab[1] # ab[2]}

MCDocuments ==
  {<< >>} \cup {<<Cat("Status", s)>> : s \in Items}
  \cup {<<Cat("Status", s), Cat("Ctrl", << Leaf("go", "Button") >>)>> : s \in Items}

(* A subclass that overrides the button, the form and the form checkbox.   *)
MCWidgetOverridden == {"Button", "Form"}
MCFieldOverridden == {"checkbox"}

=============================================================================
