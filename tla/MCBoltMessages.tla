--------------------------- MODULE MCBoltMessages ---------------------------
(* BoltMessages with a message of each kind and the boundaries of integers *)
(* and sizes.                                                              *)
EXTENDS BoltMessages

I(b) == Extended(<<0, b>>)
Filled(n) == [i \in 1 .. n |-> 97]
Val(type, v) == [type |-> type, v |-> v]
Float == <<\h3F, \hF0, 0, 0, 0, 0, 0, 1>>

(* Integers at the ends of each width and just outside, and a mixed one. *)
Integers64 ==
  {Extended(bytes) : bytes \in
     {<<0>>, <<1>>, <<127>>, <<255>>, <<\hF0>>, <<\hEF>>, <<128>>, <<0, 128>>, <<0, 255>>,
      <<255, 127>>, <<127, 255>>, <<128, 0>>, <<0, 128, 0>>, <<255, 127, 255>>,
      <<127, 255, 255, 255>>, <<128, 0, 0, 0>>, <<0, 128, 0, 0, 0>>,
      <<255, 127, 255, 255, 255>>, <<127, 255, 255, 255, 255, 255, 255, 255>>,
      <<128, 0, 0, 0, 0, 0, 0, 0>>, <<1, 2, 3, 4, 5, 6, 7, 8>>}}

Node(b) == <<I(b), <<<<65>>>>, <<>>>>
Relationship(b) == <<I(b), <<66>>, <<>>>>
Map1 == <<<<<<107>>, Val("INTEGER", I(1))>>>>

StructValues ==
  {Val("NODE", <<I(1), <<<<65>>, <<66>>>>, Map1>>),
   Val("RELATIONSHIP", <<I(1), I(2), I(3), <<66>>, Map1>>),
   Val("UNBOUND_RELATIONSHIP", Relationship(7)),
   Val("PATH", <<<<Node(1), Node(2)>>, <<Relationship(1)>>,
                 <<I(1), I(1), Extended(<<255>>), I(0)>>>>),
   Val("PATH", <<<<Node(1)>>, <<>>, <<>>>>),
   Val("DATE", <<I(1)>>), Val("TIME", <<I(1), I(2)>>), Val("LOCAL_TIME", <<I(200)>>),
   Val("DATE_TIME", <<I(1), I(2), I(3)>>), Val("DATE_TIME_ZONE_ID", <<I(1), I(2), I(3)>>),
   Val("LOCAL_DATE_TIME", <<I(1), I(2)>>), Val("DURATION", <<I(1), I(2), I(3), I(4)>>),
   Val("POINT_2D", <<I(1), Float, Float>>), Val("POINT_3D", <<I(1), Float, Float, Float>>)}

PlainValues ==
  {Val("NULL", 0), Val("BOOL", TRUE), Val("BOOL", FALSE), Val("FLOAT", Float),
   Val("LIST", <<>>), Val("LIST", <<Val("LIST", <<Val("NULL", 0)>>), Val("STRING", <<>>)>>),
   Val("MAP", <<>>),
   Val("MAP", <<<<<<107>>, Val("MAP", Map1)>>, <<<<107>>, Val("BOOL", TRUE)>>>>)}

LongValues ==
  {Val("STRING", Filled(n)) : n \in {1, 15, 16, 255, 256, 65535, 65536}}
    \cup {Val("LIST", [i \in 1 .. n |-> Val("NULL", 0)]) : n \in {15, 16, 255, 256}}
    \cup {Val("MAP", [i \in 1 .. n |-> <<<<107>>, Val("NULL", 0)>>]) : n \in {15, 16, 256}}

Message(version, type, v) == [version |-> version, type |-> type, v |-> v]

MCMessages ==
  {Message(4, "RECORD", <<<<value>>>>) :
     value \in StructValues \cup PlainValues \cup LongValues
                 \cup {Val("INTEGER", i) : i \in Integers64}}
    \cup {Message(1, "INIT", <<<<65>>, Map1>>), Message(4, "HELLO", <<Map1>>),
          Message(1, "RUN", <<<<65>>, Map1>>), Message(4, "RUN", <<<<65>>, Map1, <<>>>>),
          Message(1, "PULL", <<>>), Message(4, "PULL", <<Map1>>),
          Message(4, "BEGIN", <<<<>>>>), Message(1, "ACK_FAILURE", <<>>)}
    \cup {Message(version, type, <<Map1>>) :
            version \in Versions, type \in {"SUCCESS", "FAILURE"}}
    \cup {Message(4, type, <<>>) : type \in {"RESET", "COMMIT", "ROLLBACK"}}

(* Markers of each class, small numbers, and signatures of structs and     *)
(* messages.                                                               *)
MCDamageBytes ==
  {0, 1, 2, 127, \h80, \h81, \h90, \h91, \hA0, \hA1, \hB0, \hB1, \hB3, \hC0, \hC1,
   \hC8, \hCB, \hD0, \hD2, \hD4, \hD6, \hD8, \hDC, \hEF, \hFF, \h4E, \h50, \h66, \h3F}

==============================================================================
