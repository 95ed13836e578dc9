------------------------------ MODULE MCChunking ------------------------------
(* Instances of Chunking for TLC: documents of four blocks of ten sorts, which     *)
(* arrive in an order that is not theirs; some of their headings skip a level.       *)
EXTENDS Chunking, TLC

Sort(type, level, tokens, sentences) ==
  [block_type |-> type, level |-> level, tokens |-> tokens, sentences |-> sentences]

Sorts == {Sort("TITLE", 0, 1, <<1>>), Sort("HEADING", 1, 1, <<1>>), Sort("HEADING", 3, 1, <<1>>),
          Sort("PARAGRAPH", -1, 2, <<2>>), Sort("PARAGRAPH", -1, 5, <<2, 2, 1>>),
          Sort("LIST_ITEM", -1, 5, <<1, 1, 8>>), Sort("TABLE", -1, 1, <<1>>), Sort("FIGURE", -1, 4, <<2, 2>>),
          Sort("REFERENCE", -1, 3, <<1, 1>>), Sort("HEADER_FOOTER", -1, 1, <<1>>)}

Places == <<<<2, 2>>, <<1, 1>>, <<1, 1>>, <<2, 1>>>>   \* page and reading order

Written ==
  {[i \in 1..4 |-> [id |-> i, title |-> i, page |-> Places[i][1], reading_order |-> Places[i][2]] @@ d[i]] :
     d \in [1..4 -> Sorts]}
MCDocuments == Written
=============================================================================
