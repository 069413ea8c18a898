---------------------------- MODULE MCCrosslink ----------------------------
(* A history of three check-ins, a delta manifest and a merge among them,   *)
(* with a file and two controls; two check-ins that are made here, one on   *)
(* top of the other; artifacts of every other kind with the versions and    *)
(* attachments that interact.                                               *)
EXTENDS Crosslink

Plain == [kind |-> "file", D |-> 1, P |-> << >>, B |-> {}, F |-> {}, T |-> {}, id |-> "x", G |-> {}]
Card(type, value, target) ==
    [name |-> <<"tag", "branch">>, type |-> type, value |-> value, uuid |-> target]

MCArtifact == {"f1", "c1", "c2", "c3", "d1", "d2", "g1", "g2",
               "w1", "w2", "k1", "n1", "n2", "n3", "at1", "at2", "at3", "p1", "p2"}

MCDeck == [i \in MCArtifact |->
    CASE i = "c1" -> [Plain EXCEPT !.kind = "checkin", !.F = {"f1"},
                                   !.T = {Card(2, "trunk", Self)}]
      [] i = "c2" -> [Plain EXCEPT !.kind = "checkin", !.D = 2, !.P = <<"c1">>, !.B = {"c1"}]
      [] i = "c3" -> [Plain EXCEPT !.kind = "checkin", !.D = 3, !.P = <<"c2", "c1">>, !.F = {"f1"}]
      [] i = "d1" -> [Plain EXCEPT !.kind = "checkin", !.D = 2, !.P = <<"c1">>, !.F = {"f1"},
                                   !.T = {Card(2, "y", Self)}]
      [] i = "d2" -> [Plain EXCEPT !.kind = "checkin", !.D = 3, !.P = <<"d1">>, !.F = {"f1"}]
      [] i = "g1" -> [Plain EXCEPT !.kind = "control", !.D = 2, !.T = {Card(2, "x", "c1")}]
      [] i = "g2" -> [Plain EXCEPT !.kind = "control", !.D = 3, !.T = {Card(0, "x", "c2")}]
      [] i = "w1" -> [Plain EXCEPT !.kind = "wiki"]
      [] i = "w2" -> [Plain EXCEPT !.kind = "wiki", !.D = 2, !.P = <<"w1">>]
      [] i = "k1" -> [Plain EXCEPT !.kind = "ticket", !.id = "y"]
      [] i = "n1" -> [Plain EXCEPT !.kind = "technote", !.id = "z"]
      [] i = "n2" -> [Plain EXCEPT !.kind = "technote", !.id = "z", !.D = 2, !.P = <<"n1">>]
      [] i = "n3" -> [Plain EXCEPT !.kind = "technote", !.id = "z", !.D = 3, !.P = <<"n2">>]
      [] i = "at1" -> [Plain EXCEPT !.kind = "attachment", !.id = "y"]
      [] i = "at2" -> [Plain EXCEPT !.kind = "attachment", !.id = "y", !.D = 2]
      [] i = "at3" -> [Plain EXCEPT !.kind = "attachment", !.id = "z"]
      [] i = "p1" -> [Plain EXCEPT !.kind = "forum"]
      [] i = "p2" -> [Plain EXCEPT !.kind = "forum", !.D = 2, !.P = <<"p1">>, !.G = {"p1"}]
      [] OTHER -> Plain]

MCWorlds == {{"c1", "c2", "f1", "g1", "g2"}, {"c1", "c2", "c3", "f1"}, {"c1", "d1", "f1", "g1"},
             {"c1", "d1", "d2", "f1"},
             {"k1", "at1", "at2"}, {"n1", "n2", "n3"}, {"n1", "n2", "at3"}, {"w1", "w2", "p1", "p2"}}
MCLocal == {"d1", "d2", "g2"}
MCId == {"trunk", "x", "y", "z"}
MCTagName == {"branch"}
=============================================================================
