----------------------------- MODULE MCDslSkill ------------------------------
(* DslSkill with the documents TLC runs: the official stability test in small, *)
(* branches on a step and on a loop, and documents each gate refuses.          *)
EXTENDS DslSkill

ToolStep(id, name, arg) == [type |-> "tool", id |-> id, name |-> name, arg |-> arg]
SkillStep(id, name, arg) == [type |-> "skill", id |-> id, name |-> name, arg |-> arg]
LoopStep(id, rounds, duration, body) ==
  [type |-> "loop", id |-> id, rounds |-> rounds, duration |-> duration, body |-> body]
IfStep(id, step, equals, then, else) ==
  [type |-> "if", id |-> id, step |-> step, equals |-> equals, then |-> then, else |-> else]

Doc(official, inputs, required, steps) ==
  [official |-> official, inputs |-> inputs, required |-> required, steps |-> steps]

Stability == Doc(TRUE, {"app"}, {"app"},
  <<ToolStep("open", "launch", "app"),
    LoopStep("walk", 2, 2, <<ToolStep("tap", "tap", "literal"),
                             SkillStep("sample", "snapshot", "none")>>),
    SkillStep("collect", "logs", "literal")>>)
Branches == Doc(FALSE, {"app"}, {},
  <<LoopStep("walk", 1, 1, <<ToolStep("tap", "tap", "literal"), SkillStep("extra", "snapshot", "app")>>),
    IfStep("choose", "walk", "succeeded",
           <<SkillStep("sample", "snapshot", "app")>>, <<ToolStep("open", "launch", "app")>>),
    IfStep("again", "choose", "failed", <<ToolStep("tap2", "tap", "literal")>>, <<>>)>>)
Launch == Doc(FALSE, {"app"}, {}, <<ToolStep("open", "launch", "app"), ToolStep("list", "list", "none")>>)
Indirect == Doc(FALSE, {"app"}, {},
  <<LoopStep("walk", 1, 1, <<ToolStep("list", "list", "none"), ToolStep("open", "launch", "app")>>),
    ToolStep("tap", "tap", "literal")>>)
Forward == Doc(FALSE, {}, {},
  <<IfStep("choose", "tap", "failed", <<ToolStep("tap2", "tap", "literal")>>, <<>>),
    ToolStep("tap", "tap", "literal")>>)
Unknown == Doc(FALSE, {}, {}, <<LoopStep("walk", 1, 1, <<ToolStep("x", "shell", "none")>>)>>)
Foreign == Doc(FALSE, {}, {}, <<SkillStep("x", "app.install", "none")>>)
High == Doc(FALSE, {}, {}, <<LoopStep("walk", 1, 1, <<ToolStep("x", "install", "none")>>)>>)
Undeclared == Doc(FALSE, {}, {}, <<ToolStep("open", "launch", "app")>>)

AllDocuments == {Stability, Branches, Launch, Forward, Unknown, Foreign, High,
                 Undeclared, Indirect}
=============================================================================
