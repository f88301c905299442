------------------------- MODULE HttpRequestActions -------------------------
(* The automaton of sylar/http/http11_parser.rl.cc, which Ragel generated     *)
(* from http11_parser.rl and HttpRequestParser runs.                           *)
(*                                                                             *)
(* A character stands for the class of bytes that no state tells apart:        *)
(* "byte" for all beyond ASCII, "!" for ! $ & ' * _ ~, "(" for ( ) , ; =, "3"  *)
(* for 3 4 6-9, "A" and "a" for the hexadecimal letters, "G" and "g" for the   *)
(* letters not listed, "quote" for the quote and the backslash, "vt" for \v    *)
(* and \f, "ctl" for the control characters not listed and for ` and |.  "^r", *)
(* "{r" and "}r" are those characters while uri_relaxed is set.                *)
EXTENDS ParserTable

Any ==
    {"byte", "nul", "ctl", "stx", "etx", "eot", "enq", "ack", "tab", "lf", "vt", "cr", "sp", "!",
     "quote", "#", "%", "(", "+", "-", ".", "/", "0", "1", "2", "3", "5", ":", "<", ">", "?",
     "@", "A", "G", "H", "P", "T", "[", "]", "^", "a", "g", "v", "{", "}", "del", "^r", "{r",
     "}r"}

Digit == {"0", "1", "2", "3", "5"}
Upper == {"A", "G", "H", "P", "T"}
Hex == {"0", "1", "2", "3", "5", "A", "a"}
Alpha == {"A", "G", "H", "P", "T", "a", "g", "v"}
Alnum == {"0", "1", "2", "3", "5", "A", "G", "H", "P", "T", "a", "g", "v"}
Relaxed == {"^r", "{r", "}r"}
Token ==
    {"0", "1", "2", "3", "5", "A", "G", "H", "P", "T", "a", "g", "v", "ctl", "stx", "etx", "eot",
     "enq", "ack", "lf", "vt", "cr", "!", "#", "%", "+", "-", ".", "^", "^r"}
Named == {"0", "1", "2", "3", "5", "A", "G", "H", "P", "T", "a", "g", "v", "!", "(", "+", "-", "."}
Reg ==
    {"0", "1", "2", "3", "5", "A", "G", "H", "P", "T", "a", "g", "v", "!", "(", "+", "-", ".",
     "^r", "{r", "}r"}
Pchar ==
    {"0", "1", "2", "3", "5", "A", "G", "H", "P", "T", "a", "g", "v", "!", "(", "+", "-", ".",
     "^r", "{r", "}r", "byte", ":", "@"}

-----------------------------------------------------------------------------
(* Transitions with actions *)

ctr0 == Run(<<"mark">>, 2)
ctr4 == Run(<<"request_method">>, 3)
ctr6 == Run(<<"mark", "request_path", "request_uri">>, 4)
ctr39 == Run(<<"request_path", "request_uri">>, 4)
ctr47 == Run(<<"mark", "fragment">>, 4)
ctr51 == Run(<<"fragment">>, 4)
ctr60 == Run(<<"start_query", "query_string", "request_uri">>, 4)
ctr65 == Run(<<"query_string", "request_uri">>, 4)
ctr15 == Run(<<"mark">>, 5)
ctr23 == Run(<<"http_version">>, 13)
ctr32 == Run(<<"start_value", "write_value">>, 13)
ctr35 == Run(<<"write_value">>, 13)
ctr25 == Run(<<"start_field">>, 14)
ctr29 == Run(<<"write_field">>, 15)
ctr31 == Run(<<"start_value">>, 15)
ctr30 == Run(<<"start_value">>, 16)
ctr24 == Run(<<"http_version">>, 17)
ctr33 == Run(<<"start_value", "write_value">>, 17)
ctr36 == Run(<<"write_value">>, 17)
ctr26 == Run(<<"start_field", "done">>, 348)
ctr38 == Run(<<"done">>, 348)
ctr27 == Run(<<"start_field">>, 18)
ctr13 == Run(<<"mark">>, 19)
ctr7 == Run(<<"mark">>, 19)
ctr8 == Run(<<"mark", "request_path", "request_uri">>, 20)
ctr41 == Run(<<"request_path", "request_uri">>, 20)
ctr61 == Run(<<"start_query", "query_string", "request_uri">>, 20)
ctr66 == Run(<<"query_string", "request_uri">>, 20)
ctr49 == Run(<<"mark">>, 21)
ctr46 == Run(<<"mark">>, 21)
ctr48 == Run(<<"mark">>, 22)
ctr9 == Run(<<"mark">>, 24)
ctr217 == Run(<<"mark">>, 26)
ctr215 == Run(<<"mark">>, 26)
ctr216 == Run(<<"mark">>, 27)
ctr11 == Run(<<"mark", "request_path">>, 29)
ctr44 == Run(<<"request_path">>, 29)
ctr63 == Run(<<"start_query">>, 30)
ctr59 == Run(<<"start_query">>, 30)
ctr62 == Run(<<"start_query">>, 31)
ctr10 == Run(<<"mark">>, 33)
ctr12 == Run(<<"mark">>, 173)
ctr2 == Run(<<"mark">>, 194)
ctr237 == Run(<<"request_path">>, 196)
ctr240 == Run(<<"xml", "done">>, 349)
ctr249 == Run(<<"json", "done">>, 349)
ctr3 == Run(<<"mark">>, 198)
ctr241 == Run(<<"request_path">>, 199)
ctr246 == Run(<<"mark">>, 200)
=============================================================================
