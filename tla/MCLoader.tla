------------------------------ MODULE MCLoader ------------------------------
(***************************************************************************)
(* Memory of four bytes and files of three, with up to three headers whose *)
(* segments overlap, touch, are empty, only cleared, cut off by the end of *)
(* the file or inconsistent; and the files refused before any header.      *)
(***************************************************************************)
EXTENDS Loader, SequencesExt

HeadersForMC ==
    {h \in [type : {"Load"}, offset : {1}, filesz : 0 .. 3,
            memsz : {0, 1, 3}, paddr : 0 .. 1] :
        h.memsz = 0 => h.filesz = 1}
    \cup {[type |-> "Other", offset |-> 0, filesz |-> 2, memsz |-> 3, paddr |-> 0],
          [type |-> "Load", offset |-> 4, filesz |-> 0, memsz |-> 2, paddr |-> 1]}

GoodFile == [opens |-> TRUE, readable |-> TRUE, size |-> 3,
             bytes |-> [b \in 0 .. 2 |-> b + 1], magic |-> TRUE, class |-> "32",
             phoff |-> 0, headers |-> <<>>]

RefusedFiles ==
    {[GoodFile EXCEPT !.opens = FALSE], [GoodFile EXCEPT !.readable = FALSE],
     [GoodFile EXCEPT !.magic = FALSE], [GoodFile EXCEPT !.class = "Other"],
     [GoodFile EXCEPT !.size = 0, !.bytes = [b \in {} |-> 0]],
     [GoodFile EXCEPT !.phoff = 4],
     [GoodFile EXCEPT !.class = "64", !.phoff = 3,
                      !.headers = <<CHOOSE h \in HeadersForMC : Loadable(h)>>]}

FilesForMC ==
    RefusedFiles \cup
    {[GoodFile EXCEPT !.headers = s] : s \in BoundedSeq(HeadersForMC, 3)}

EhdrSizeForMC == [c \in {"32", "64"} |-> IF c = "32" THEN 1 ELSE 2]
PhdrSizeForMC == [c \in {"32", "64"} |-> IF c = "32" THEN 1 ELSE 2]
=============================================================================
