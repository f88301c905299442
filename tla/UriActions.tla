----------------------------- MODULE UriActions -----------------------------
(* The automaton of sylar/uri.rl.cc, which Ragel generated from uri.rl and     *)
(* Uri::Create runs.                                                           *)
(*                                                                             *)
(* A character stands for the class of bytes that no state tells apart:        *)
(* "byte" for all beyond ASCII, "!" for ! $ & ' ( ) * , ; = _ ~, "+" for + -,   *)
(* "3" for 3 4, "6" for 6-9, "a" for the hexadecimal letters, "g" for the other *)
(* letters, "stx" for the byte 2, "ctl" for what no URI contains.              *)
EXTENDS ParserTable

Any ==
    {"byte", "ctl", "stx", "!", "#", "%", "+", ".", "/", "0", "1", "2", "3", "5", "6", ":", "?",
     "@", "a", "g", "[", "]", "v"}

Digit == {"0", "1", "2", "3", "5", "6"}
Hex == {"0", "1", "2", "3", "5", "6", "a"}
Alpha == {"a", "g", "v"}
Scheme == {"0", "1", "2", "3", "5", "6", "a", "g", "v", "+", "."}
Reg == {"0", "1", "2", "3", "5", "6", "a", "g", "v", "!", "+", "."}
Pchar == {"0", "1", "2", "3", "5", "6", "a", "g", "v", "!", "+", ".", "byte", ":", "@"}

-----------------------------------------------------------------------------
(* Transitions with actions *)

ctr467 == Run(<<"marku", "save_query">>, 453)
ctr469 == Run(<<"save_query">>, 453)
ctr474 == Run(<<"markh", "save_host">>, 453)
ctr485 == Run(<<"save_host">>, 453)
ctr489 == Run(<<"markh", "save_port">>, 453)
ctr493 == Run(<<"save_port">>, 453)
ctr548 == Run(<<"markh", "save_host", "save_path">>, 453)
ctr559 == Run(<<"save_host", "markh", "save_path">>, 453)
ctr563 == Run(<<"save_path">>, 453)
ctr566 == Run(<<"markh", "save_port", "save_path">>, 453)
ctr570 == Run(<<"save_port", "markh", "save_path">>, 453)
ctr462 == Run(<<"marku">>, 454)
ctr463 == Run(<<"marku">>, 1)
ctr476 == Run(<<"markh", "save_host">>, 455)
ctr486 == Run(<<"save_host">>, 455)
ctr490 == Run(<<"markh", "save_port">>, 455)
ctr494 == Run(<<"save_port">>, 455)
ctr482 == Run(<<"markh", "save_host">>, 456)
ctr488 == Run(<<"save_host">>, 456)
ctr492 == Run(<<"markh", "save_port">>, 456)
ctr496 == Run(<<"save_port">>, 456)
ctr556 == Run(<<"markh", "save_host", "save_path">>, 456)
ctr562 == Run(<<"save_host", "markh", "save_path">>, 456)
ctr565 == Run(<<"save_path">>, 456)
ctr569 == Run(<<"markh", "save_port", "save_path">>, 456)
ctr573 == Run(<<"save_port", "markh", "save_path">>, 456)
ctr466 == Run(<<"marku">>, 457)
ctr468 == Run(<<"marku">>, 7)
ctr472 == Run(<<"markh">>, 9)
ctr507 == Run(<<"markh", "save_host">>, 461)
ctr487 == Run(<<"save_host">>, 461)
ctr491 == Run(<<"markh">>, 462)
ctr473 == Run(<<"markh">>, 467)
ctr475 == Run(<<"markh">>, 31)
ctr481 == Run(<<"markh", "save_host">>, 468)
ctr499 == Run(<<"save_host">>, 468)
ctr38 == Run(<<"save_userinfo">>, 469)
ctr483 == Run(<<"markh", "save_userinfo">>, 469)
ctr501 == Run(<<"markh">>, 470)
ctr502 == Run(<<"markh">>, 36)
ctr503 == Run(<<"markh">>, 471)
ctr504 == Run(<<"markh">>, 485)
ctr506 == Run(<<"markh">>, 486)
ctr505 == Run(<<"markh">>, 487)
ctr484 == Run(<<"markh">>, 38)
ctr500 == Run(<<"markh">>, 489)
ctr477 == Run(<<"markh">>, 490)
ctr478 == Run(<<"markh">>, 504)
ctr480 == Run(<<"markh">>, 505)
ctr479 == Run(<<"markh">>, 506)
ctr461 == Run(<<"marku">>, 508)
ctr543 == Run(<<"save_scheme">>, 509)
ctr546 == Run(<<"markh">>, 229)
ctr550 == Run(<<"markh", "save_host">>, 513)
ctr567 == Run(<<"markh", "save_port">>, 513)
ctr560 == Run(<<"save_host", "markh">>, 513)
ctr571 == Run(<<"save_port", "markh">>, 513)
ctr584 == Run(<<"markh", "save_host">>, 514)
ctr561 == Run(<<"save_host">>, 514)
ctr568 == Run(<<"markh">>, 515)
ctr547 == Run(<<"markh">>, 520)
ctr549 == Run(<<"markh">>, 253)
ctr555 == Run(<<"markh", "save_host">>, 521)
ctr576 == Run(<<"save_host">>, 521)
ctr263 == Run(<<"save_userinfo">>, 522)
ctr557 == Run(<<"markh", "save_userinfo">>, 522)
ctr578 == Run(<<"markh">>, 523)
ctr579 == Run(<<"markh">>, 258)
ctr580 == Run(<<"markh">>, 524)
ctr581 == Run(<<"markh">>, 538)
ctr583 == Run(<<"markh">>, 539)
ctr582 == Run(<<"markh">>, 540)
ctr558 == Run(<<"markh">>, 260)
ctr577 == Run(<<"markh">>, 542)
ctr551 == Run(<<"markh">>, 543)
ctr552 == Run(<<"markh">>, 557)
ctr554 == Run(<<"markh">>, 558)
ctr553 == Run(<<"markh">>, 559)

-----------------------------------------------------------------------------
(* Actions at the end of the input *)

eof_462 == AtEnd({462, 489}, <<"save_port">>)
eof_460 == AtEnd((463 .. 467) \cup (470 .. 488) \cup (490 .. 507) \cup {460}, <<"save_host">>)
eof_513 == AtEnd({513}, <<"save_path">>)
eof_457 == AtEnd({457}, <<"save_query">>)
eof_454 == AtEnd({454}, <<"save_fragment">>)
eof_456 == AtEnd({456}, <<"marku", "save_query">>)
eof_453 == AtEnd({453}, <<"marku", "save_fragment">>)
eof_461 == AtEnd({461, 468}, <<"markh", "save_port">>)
eof_459 == AtEnd({459, 469}, <<"markh", "save_host">>)
eof_514 == AtEnd({514, 521}, <<"markh", "save_port", "save_path">>)
eof_511 == AtEnd({511, 522}, <<"markh", "save_host", "save_path">>)
eof_515 == AtEnd({515, 542}, <<"save_port", "markh", "save_path">>)
eof_512 ==
    AtEnd((516 .. 520) \cup (523 .. 541) \cup (543 .. 560) \cup {512}, <<"save_host", "markh", "save_path">>)

eof_actions ==
    {eof_462, eof_460, eof_513, eof_457, eof_454, eof_456, eof_453, eof_461, eof_459, eof_514,
     eof_511, eof_515, eof_512}
=============================================================================
