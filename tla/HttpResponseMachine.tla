------------------------ MODULE HttpResponseMachine -------------------------
(* The automaton of sylar/http/httpclient_parser.rl.cc, which Ragel generated *)
(* from httpclient_parser.rl and HttpResponseParser runs.                      *)
(*                                                                             *)
(* A character stands for the class of bytes that no state tells apart: a      *)
(* lower-case letter for both cases, but "H" "h" and "T" "t" differ, "0" for   *)
(* the digits, "tab" for \t \v \f, "!" for the other characters of a token,    *)
(* "byte" for the rest.                                                        *)
EXTENDS ParserTable

httpclient_parser_start == 1
httpclient_parser_first_final == 120
httpclient_parser_error == 0

Any ==
    {"byte", "tab", "lf", "cr", "sp", "!", "-", ".", "/", "0", ":", ";", "=", "a", "b", "c", "d",
     "e", "f", "g", "H", "i", "k", "l", "n", "o", "P", "r", "s", "T", "u", "h", "t"}

Hex == {"0", "a", "b", "c", "d", "e", "f"}
Space == {"tab", "lf", "cr", "sp"}
Token ==
    {"!", "-", ".", "0", "a", "b", "c", "d", "e", "f", "g", "H", "h", "i", "k", "l", "n", "o",
     "P", "r", "s", "T", "t", "u"}

-----------------------------------------------------------------------------
(* Transitions with actions *)

ctr0 == Run(<<"mark">>, 2)
ctr3 == Run(<<"chunk_size", "done">>, 120)
ctr7 == Run(<<"done">>, 120)
ctr9 == Run(<<"write_field", "start_value", "write_value", "done">>, 120)
ctr15 == Run(<<"write_value", "done">>, 120)
ctr74 == Run(<<"write_connection_close", "done">>, 120)
ctr4 == Run(<<"chunk_size">>, 3)
ctr10 == Run(<<"write_field", "start_value", "write_value">>, 3)
ctr16 == Run(<<"write_value">>, 3)
ctr75 == Run(<<"write_connection_close">>, 3)
ctr6 == Run(<<"chunk_size">>, 4)
ctr12 == Run(<<"write_field", "start_value", "write_value">>, 4)
ctr18 == Run(<<"write_value">>, 4)
ctr8 == Run(<<"start_field">>, 5)
ctr13 == Run(<<"write_field", "start_value">>, 6)
ctr14 == Run(<<"start_value">>, 7)
ctr2 == Run(<<"mark">>, 8)
ctr26 == Run(<<"http_version">>, 16)
ctr27 == Run(<<"mark">>, 17)
ctr28 == Run(<<"status_code">>, 18)
ctr30 == Run(<<"mark">>, 19)
ctr45 == Run(<<"write_value">>, 20)
ctr32 == Run(<<"reason_phrase">>, 20)
ctr42 == Run(<<"start_value", "write_value">>, 20)
ctr111 == Run(<<"write_value", "trans_chunked">>, 20)
ctr113 == Run(<<"trans_chunked">>, 20)
ctr158 == Run(<<"write_content_len", "write_value">>, 20)
ctr35 == Run(<<"start_field">>, 21)
ctr76 == Run(<<"write_connection_close", "start_field">>, 21)
ctr41 == Run(<<"start_value">>, 22)
ctr39 == Run(<<"write_field">>, 22)
ctr40 == Run(<<"start_value">>, 23)
ctr46 == Run(<<"write_value">>, 24)
ctr33 == Run(<<"reason_phrase">>, 24)
ctr43 == Run(<<"start_value", "write_value">>, 24)
ctr159 == Run(<<"write_content_len", "write_value">>, 24)
ctr36 == Run(<<"start_field">>, 25)
ctr77 == Run(<<"write_connection_close", "start_field">>, 25)
ctr59 == Run(<<"start_value">>, 35)
ctr58 == Run(<<"write_field">>, 35)
ctr60 == Run(<<"start_value", "write_value">>, 36)
ctr136 == Run(<<"write_value">>, 43)
ctr37 == Run(<<"start_field">>, 44)
ctr78 == Run(<<"write_connection_close", "start_field">>, 44)
ctr96 == Run(<<"start_value">>, 61)
ctr95 == Run(<<"write_field">>, 61)
ctr97 == Run(<<"start_value", "write_value">>, 62)
ctr104 == Run(<<"start_value">>, 64)
ctr112 == Run(<<"write_value">>, 71)
ctr101 == Run(<<"done">>, 121)
ctr103 == Run(<<"start_value", "start_field">>, 73)
ctr98 == Run(<<"start_value", "write_value">>, 80)
ctr99 == Run(<<"start_value">>, 81)
ctr137 == Run(<<"write_value">>, 88)
ctr64 == Run(<<"done">>, 122)
ctr66 == Run(<<"start_field">>, 90)
ctr61 == Run(<<"start_value", "write_value">>, 95)
ctr62 == Run(<<"start_value">>, 96)
ctr149 == Run(<<"start_value">>, 112)
ctr148 == Run(<<"write_field">>, 112)
ctr150 == Run(<<"start_value", "write_value">>, 113)
ctr157 == Run(<<"start_value">>, 115)
ctr154 == Run(<<"done">>, 123)
ctr156 == Run(<<"start_value", "start_field">>, 117)
ctr151 == Run(<<"start_value", "write_value">>, 118)
ctr152 == Run(<<"start_value">>, 119)

-----------------------------------------------------------------------------
(* States *)

st_case_1 == {By(Hex, ctr0), By({"H"}, ctr2)}
st_case_2 == {By({"lf"}, ctr3), By({"cr"}, ctr4), To(Hex, 2), By({";"}, ctr6)}
st_case_120 == {}
st_case_3 == {By({"lf"}, ctr7)}
st_case_4 == {By(Token, ctr8)}
st_case_5 ==
    {By({"lf"}, ctr9), By({"cr"}, ctr10), To(Token, 5), By({";"}, ctr12), By({"="}, ctr13)}
st_case_6 == {By(Token, ctr14)}
st_case_7 == {By({"lf"}, ctr15), By({"cr"}, ctr16), To(Token, 7), By({";"}, ctr18)}
st_case_8 == {To({"T"}, 9)}
st_case_9 == {To({"T"}, 10)}
st_case_10 == {To({"P"}, 11)}
st_case_11 == {To({"/"}, 12)}
st_case_12 == {To({"0"}, 13)}
st_case_13 == {To({"."}, 14), To({"0"}, 13)}
st_case_14 == {To({"0"}, 15)}
st_case_15 == {By({"sp"}, ctr26), To({"0"}, 15)}
st_case_16 == {By({"0"}, ctr27)}
st_case_17 == {By({"sp"}, ctr28), To({"0"}, 17)}
st_case_18 == {By(Any \ {"lf"}, ctr30)}
st_case_19 == {To(Any \ {"lf", "cr"}, 19), By({"lf"}, ctr32), By({"cr"}, ctr33)}
st_case_20 ==
    {By({"lf"}, ctr7), To({"cr"}, 3), By(Token \ {"c", "T", "t"}, ctr35), By({"c"}, ctr36),
     By({"T", "t"}, ctr37)}
st_case_21 == {To(Token, 21), By({":"}, ctr39)}
st_case_22 ==
    {By(Any \ Space, ctr40), By({"tab", "sp"}, ctr41), By({"lf"}, ctr42), By({"cr"}, ctr43)}
st_case_23 == {To(Any \ {"lf", "cr"}, 23), By({"lf"}, ctr45), By({"cr"}, ctr46)}
st_case_24 == {To({"lf"}, 20)}
st_case_25 == {To(Token \ {"o"}, 21), By({":"}, ctr39), To({"o"}, 26)}
st_case_26 == {To(Token \ {"n"}, 21), By({":"}, ctr39), To({"n"}, 27)}
st_case_27 ==
    {To(Token \ {"n", "T", "t"}, 21), By({":"}, ctr39), To({"n"}, 28), To({"T", "t"}, 101)}
st_case_28 == {To(Token \ {"e"}, 21), By({":"}, ctr39), To({"e"}, 29)}
st_case_29 == {To(Token \ {"c"}, 21), By({":"}, ctr39), To({"c"}, 30)}
st_case_30 == {To(Token \ {"T", "t"}, 21), By({":"}, ctr39), To({"T", "t"}, 31)}
st_case_31 == {To(Token \ {"i"}, 21), By({":"}, ctr39), To({"i"}, 32)}
st_case_32 == {To(Token \ {"o"}, 21), By({":"}, ctr39), To({"o"}, 33)}
st_case_33 == {To(Token \ {"n"}, 21), By({":"}, ctr39), To({"n"}, 34)}
st_case_34 == {To(Token, 21), By({":"}, ctr58)}
st_case_35 ==
    {By(Any \ (Space \cup {"c"}), ctr40), By({"tab", "sp"}, ctr59), By({"lf"}, ctr60),
     By({"cr"}, ctr61), By({"c"}, ctr62)}
st_case_36 ==
    {To({"tab", "sp"}, 37), By({"lf"}, ctr64), To({"cr"}, 89),
     By(Token \ {"c", "T", "t"}, ctr35), By({"c"}, ctr66), By({"T", "t"}, ctr37)}
st_case_37 == {To(Space, 37), To({"c"}, 38)}
st_case_38 == {To({"l"}, 39)}
st_case_39 == {To({"o"}, 40)}
st_case_40 == {To({"s"}, 41)}
st_case_41 == {To({"e"}, 42)}
st_case_42 == {To({"lf"}, 43), To({"cr"}, 88)}
st_case_43 ==
    {By({"lf"}, ctr74), By({"cr"}, ctr75), By(Token \ {"c", "T", "t"}, ctr76), By({"c"}, ctr77),
     By({"T", "t"}, ctr78)}
st_case_44 == {To(Token \ {"r"}, 21), By({":"}, ctr39), To({"r"}, 45)}
st_case_45 == {To(Token \ {"a"}, 21), By({":"}, ctr39), To({"a"}, 46)}
st_case_46 == {To(Token \ {"n"}, 21), By({":"}, ctr39), To({"n"}, 47)}
st_case_47 == {To(Token \ {"s"}, 21), By({":"}, ctr39), To({"s"}, 48)}
st_case_48 == {To(Token \ {"f"}, 21), By({":"}, ctr39), To({"f"}, 49)}
st_case_49 == {To(Token \ {"e"}, 21), By({":"}, ctr39), To({"e"}, 50)}
st_case_50 == {To(Token \ {"r"}, 21), By({":"}, ctr39), To({"r"}, 51)}
st_case_51 == {To(Token \ {"-"}, 21), To({"-"}, 52), By({":"}, ctr39)}
st_case_52 == {To(Token \ {"e"}, 21), By({":"}, ctr39), To({"e"}, 53)}
st_case_53 == {To(Token \ {"n"}, 21), By({":"}, ctr39), To({"n"}, 54)}
st_case_54 == {To(Token \ {"c"}, 21), By({":"}, ctr39), To({"c"}, 55)}
st_case_55 == {To(Token \ {"o"}, 21), By({":"}, ctr39), To({"o"}, 56)}
st_case_56 == {To(Token \ {"d"}, 21), By({":"}, ctr39), To({"d"}, 57)}
st_case_57 == {To(Token \ {"i"}, 21), By({":"}, ctr39), To({"i"}, 58)}
st_case_58 == {To(Token \ {"n"}, 21), By({":"}, ctr39), To({"n"}, 59)}
st_case_59 == {To(Token \ {"g"}, 21), By({":"}, ctr39), To({"g"}, 60)}
st_case_60 == {To(Token, 21), By({":"}, ctr95)}
st_case_61 ==
    {By(Any \ (Space \cup {"c"}), ctr40), By({"tab", "sp"}, ctr96), By({"lf"}, ctr97),
     By({"cr"}, ctr98), By({"c"}, ctr99)}
st_case_62 ==
    {To({"tab", "sp"}, 63), By({"lf"}, ctr101), To({"cr"}, 72),
     By(Token \ {"c", "T", "t"}, ctr35), By({"c"}, ctr103), By({"T", "t"}, ctr37)}
st_case_63 == {To(Space, 63), By({"c"}, ctr104)}
st_case_64 == {To({"H", "h"}, 65)}
st_case_65 == {To({"u"}, 66)}
st_case_66 == {To({"n"}, 67)}
st_case_67 == {To({"k"}, 68)}
st_case_68 == {To({"e"}, 69)}
st_case_69 == {To({"d"}, 70)}
st_case_70 == {By({"lf"}, ctr111), By({"cr"}, ctr112)}
st_case_71 == {By({"lf"}, ctr113)}
st_case_121 == {To(Space, 63), By({"c"}, ctr104)}
st_case_72 == {To(Space \ {"lf"}, 63), By({"lf"}, ctr101), By({"c"}, ctr104)}
st_case_73 ==
    {To(Token \ {"H", "o", "h"}, 21), By({":"}, ctr39), To({"H", "h"}, 74), To({"o"}, 26)}
st_case_74 == {To(Token \ {"u"}, 21), By({":"}, ctr39), To({"u"}, 75)}
st_case_75 == {To(Token \ {"n"}, 21), By({":"}, ctr39), To({"n"}, 76)}
st_case_76 == {To(Token \ {"k"}, 21), By({":"}, ctr39), To({"k"}, 77)}
st_case_77 == {To(Token \ {"e"}, 21), By({":"}, ctr39), To({"e"}, 78)}
st_case_78 == {To(Token \ {"d"}, 21), By({":"}, ctr39), To({"d"}, 79)}
st_case_79 == {By({"lf"}, ctr111), By({"cr"}, ctr112), To(Token, 21), By({":"}, ctr39)}
st_case_80 == {To(Space \ {"lf"}, 63), To({"lf"}, 62), By({"c"}, ctr104)}
st_case_81 ==
    {To(Any \ {"lf", "cr", "H", "h"}, 23), By({"lf"}, ctr45), By({"cr"}, ctr46),
     To({"H", "h"}, 82)}
st_case_82 ==
    {To(Any \ {"lf", "cr", "u"}, 23), By({"lf"}, ctr45), By({"cr"}, ctr46), To({"u"}, 83)}
st_case_83 ==
    {To(Any \ {"lf", "cr", "n"}, 23), By({"lf"}, ctr45), By({"cr"}, ctr46), To({"n"}, 84)}
st_case_84 ==
    {To(Any \ {"lf", "cr", "k"}, 23), By({"lf"}, ctr45), By({"cr"}, ctr46), To({"k"}, 85)}
st_case_85 ==
    {To(Any \ {"lf", "cr", "e"}, 23), By({"lf"}, ctr45), By({"cr"}, ctr46), To({"e"}, 86)}
st_case_86 ==
    {To(Any \ {"lf", "cr", "d"}, 23), By({"lf"}, ctr45), By({"cr"}, ctr46), To({"d"}, 87)}
st_case_87 == {To(Any \ {"lf", "cr"}, 23), By({"lf"}, ctr111), By({"cr"}, ctr112)}
st_case_88 == {To({"lf"}, 43)}
st_case_122 == {To(Space, 37), To({"c"}, 38)}
st_case_89 == {To(Space \ {"lf"}, 37), By({"lf"}, ctr64), To({"c"}, 38)}
st_case_90 == {To(Token \ {"l", "o"}, 21), By({":"}, ctr39), To({"l"}, 91), To({"o"}, 26)}
st_case_91 == {To(Token \ {"o"}, 21), By({":"}, ctr39), To({"o"}, 92)}
st_case_92 == {To(Token \ {"s"}, 21), By({":"}, ctr39), To({"s"}, 93)}
st_case_93 == {To(Token \ {"e"}, 21), By({":"}, ctr39), To({"e"}, 94)}
st_case_94 == {To({"lf"}, 43), To({"cr"}, 88), To(Token, 21), By({":"}, ctr39)}
st_case_95 == {To(Space \ {"lf"}, 37), To({"lf"}, 36), To({"c"}, 38)}
st_case_96 ==
    {To(Any \ {"lf", "cr", "l"}, 23), By({"lf"}, ctr45), By({"cr"}, ctr46), To({"l"}, 97)}
st_case_97 ==
    {To(Any \ {"lf", "cr", "o"}, 23), By({"lf"}, ctr45), By({"cr"}, ctr46), To({"o"}, 98)}
st_case_98 ==
    {To(Any \ {"lf", "cr", "s"}, 23), By({"lf"}, ctr45), By({"cr"}, ctr46), To({"s"}, 99)}
st_case_99 ==
    {To(Any \ {"lf", "cr", "e"}, 23), By({"lf"}, ctr45), By({"cr"}, ctr46), To({"e"}, 100)}
st_case_100 == {To(Any \ {"lf", "cr"}, 23), By({"lf"}, ctr136), By({"cr"}, ctr137)}
st_case_101 == {To(Token \ {"e"}, 21), By({":"}, ctr39), To({"e"}, 102)}
st_case_102 == {To(Token \ {"n"}, 21), By({":"}, ctr39), To({"n"}, 103)}
st_case_103 == {To(Token \ {"T", "t"}, 21), By({":"}, ctr39), To({"T", "t"}, 104)}
st_case_104 == {To(Token \ {"-"}, 21), To({"-"}, 105), By({":"}, ctr39)}
st_case_105 == {To(Token \ {"l"}, 21), By({":"}, ctr39), To({"l"}, 106)}
st_case_106 == {To(Token \ {"e"}, 21), By({":"}, ctr39), To({"e"}, 107)}
st_case_107 == {To(Token \ {"n"}, 21), By({":"}, ctr39), To({"n"}, 108)}
st_case_108 == {To(Token \ {"g"}, 21), By({":"}, ctr39), To({"g"}, 109)}
st_case_109 == {To(Token \ {"T", "t"}, 21), By({":"}, ctr39), To({"T", "t"}, 110)}
st_case_110 == {To(Token \ {"H", "h"}, 21), By({":"}, ctr39), To({"H", "h"}, 111)}
st_case_111 == {To(Token, 21), By({":"}, ctr148)}
st_case_112 ==
    {By(Any \ (Space \cup {"0"}), ctr40), By({"tab", "sp"}, ctr149), By({"lf"}, ctr150),
     By({"cr"}, ctr151), By({"0"}, ctr152)}
st_case_113 ==
    {To({"tab", "sp"}, 114), By({"lf"}, ctr154), To({"cr"}, 116),
     By(Token \ {"0", "c", "T", "t"}, ctr35), By({"0"}, ctr156), By({"c"}, ctr36),
     By({"T", "t"}, ctr37)}
st_case_114 == {To(Space, 114), By({"0"}, ctr157)}
st_case_115 == {By({"lf"}, ctr158), By({"cr"}, ctr159), To({"0"}, 115)}
st_case_123 == {To(Space, 114), By({"0"}, ctr157)}
st_case_116 == {To(Space \ {"lf"}, 114), By({"lf"}, ctr154), By({"0"}, ctr157)}
st_case_117 ==
    {By({"lf"}, ctr158), By({"cr"}, ctr159), To(Token \ {"0"}, 21), To({"0"}, 117),
     By({":"}, ctr39)}
st_case_118 == {To(Space \ {"lf"}, 114), To({"lf"}, 113), By({"0"}, ctr157)}
st_case_119 ==
    {To(Any \ {"lf", "cr", "0"}, 23), By({"lf"}, ctr158), By({"cr"}, ctr159), To({"0"}, 119)}

\* The jump to the state the machine is in.
states ==
    <<st_case_1, st_case_2, st_case_3, st_case_4, st_case_5, st_case_6, st_case_7, st_case_8,
     st_case_9, st_case_10, st_case_11, st_case_12, st_case_13, st_case_14, st_case_15,
     st_case_16, st_case_17, st_case_18, st_case_19, st_case_20, st_case_21, st_case_22,
     st_case_23, st_case_24, st_case_25, st_case_26, st_case_27, st_case_28, st_case_29,
     st_case_30, st_case_31, st_case_32, st_case_33, st_case_34, st_case_35, st_case_36,
     st_case_37, st_case_38, st_case_39, st_case_40, st_case_41, st_case_42, st_case_43,
     st_case_44, st_case_45, st_case_46, st_case_47, st_case_48, st_case_49, st_case_50,
     st_case_51, st_case_52, st_case_53, st_case_54, st_case_55, st_case_56, st_case_57,
     st_case_58, st_case_59, st_case_60, st_case_61, st_case_62, st_case_63, st_case_64,
     st_case_65, st_case_66, st_case_67, st_case_68, st_case_69, st_case_70, st_case_71,
     st_case_72, st_case_73, st_case_74, st_case_75, st_case_76, st_case_77, st_case_78,
     st_case_79, st_case_80, st_case_81, st_case_82, st_case_83, st_case_84, st_case_85,
     st_case_86, st_case_87, st_case_88, st_case_89, st_case_90, st_case_91, st_case_92,
     st_case_93, st_case_94, st_case_95, st_case_96, st_case_97, st_case_98, st_case_99,
     st_case_100, st_case_101, st_case_102, st_case_103, st_case_104, st_case_105, st_case_106,
     st_case_107, st_case_108, st_case_109, st_case_110, st_case_111, st_case_112, st_case_113,
     st_case_114, st_case_115, st_case_116, st_case_117, st_case_118, st_case_119, st_case_120,
     st_case_121, st_case_122, st_case_123>>
=============================================================================
