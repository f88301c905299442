------------------------- MODULE HttpRequestStates --------------------------
(* The states of HttpRequestMachine in the order of the generated code, part 1 of 2.  *)
EXTENDS HttpRequestActions

st_case_1 == {By(Digit \cup Upper, ctr0), By({"<"}, ctr2), By({"@"}, ctr3)}
st_case_2 == {By({"sp"}, ctr4), To(Digit \cup Upper, 175)}
st_case_3 ==
    {By({"sp"}, ctr6), By((Named \ Alpha) \cup {"@"}, ctr7), By({"#"}, ctr8), By({"%"}, ctr9),
     By({"/"}, ctr10), By({"?"}, ctr11), By(Alpha, ctr12), By(Relaxed, ctr13)}
st_case_4 == {By({"H"}, ctr15)}
st_case_5 == {To({"T"}, 6)}
st_case_6 == {To({"T"}, 7)}
st_case_7 == {To({"P"}, 8)}
st_case_8 == {To({"/"}, 9)}
st_case_9 == {To({"1"}, 10)}
st_case_10 == {To({"."}, 11)}
\* A mutant: the table of a grammar that takes any minor version.
st_case_11_stale == {To(Digit, 12)}
st_case_11 == {To({"0", "1"}, 12)}
st_case_12 == {By({"lf"}, ctr23), By({"cr"}, ctr24)}
st_case_13 == {By(Token \ {"lf", "cr"}, ctr25), By({"lf"}, ctr26), By({"cr"}, ctr27)}
st_case_14 == {To(Token, 14), By({":"}, ctr29)}
st_case_15 ==
    {By(Any \ {"nul", "tab", "lf", "cr", "sp", "del"}, ctr30), By({"tab", "sp"}, ctr31),
     By({"lf"}, ctr32), By({"cr"}, ctr33)}
st_case_16 == {To(Any \ {"nul", "lf", "cr", "del"}, 16), By({"lf"}, ctr35), By({"cr"}, ctr36)}
st_case_17 == {To({"lf"}, 13)}
st_case_348 == {To(Token, 14), By({":"}, ctr29)}
st_case_18 == {To(Token \ {"lf"}, 14), By({"lf"}, ctr38), By({":"}, ctr29)}
st_case_19 ==
    {By({"sp"}, ctr39), To(Reg \cup {"@"}, 19), By({"#"}, ctr41), To({"%"}, 24), To({"/"}, 26),
     By({"?"}, ctr44)}
st_case_20 ==
    {By((Pchar \ Relaxed) \cup {"/", "?"}, ctr46), By({"sp"}, ctr47), By({"%"}, ctr48),
     By(Relaxed, ctr49)}
st_case_21 == {To(Pchar \cup {"/", "?"}, 21), By({"sp"}, ctr51), To({"%"}, 22)}
st_case_22 == {To(Hex, 23)}
st_case_23 == {To(Hex, 21)}
st_case_24 == {To(Hex, 25)}
st_case_25 == {To(Hex, 19)}
st_case_26 ==
    {To(Pchar \cup {"/"}, 26), By({"sp"}, ctr39), By({"#"}, ctr41), To({"%"}, 27),
     By({"?"}, ctr44)}
st_case_27 == {To(Hex, 28)}
st_case_28 == {To(Hex, 26)}
st_case_29 ==
    {By((Pchar \ Relaxed) \cup {"/", "?"}, ctr59), By({"sp"}, ctr60), By({"#"}, ctr61),
     By({"%"}, ctr62), By(Relaxed, ctr63)}
st_case_30 == {To(Pchar \cup {"/", "?"}, 30), By({"sp"}, ctr65), By({"#"}, ctr66), To({"%"}, 31)}
st_case_31 == {To(Hex, 32)}
st_case_32 == {To(Hex, 30)}
st_case_33 ==
    {To(Pchar, 26), By({"sp"}, ctr39), By({"#"}, ctr41), To({"%"}, 27), To({"/"}, 34),
     By({"?"}, ctr44)}
st_case_34 ==
    {By({"sp"}, ctr39), To(Reg, 35), By({"#"}, ctr41), To({"%"}, 36), To({"/"}, 26),
     To({":"}, 38), By({"?"}, ctr44), To({"@"}, 42), To({"["}, 47)}
st_case_35 ==
    {By({"sp"}, ctr39), To(Reg, 35), By({"#"}, ctr41), To({"%"}, 36), To({"/"}, 26),
     To({":"}, 38), By({"?"}, ctr44), To({"@"}, 42)}
st_case_36 == {To(Hex, 37)}
st_case_37 == {To(Hex, 35)}
st_case_38 ==
    {By({"sp"}, ctr39), To((Reg \ Digit) \cup {":"}, 39), By({"#"}, ctr41), To({"%"}, 40),
     To({"/"}, 26), To(Digit, 38), By({"?"}, ctr44), To({"@"}, 42)}
st_case_39 == {To(Reg \cup {":"}, 39), To({"%"}, 40), To({"@"}, 42)}
st_case_40 == {To(Hex, 41)}
st_case_41 == {To(Hex, 39)}
st_case_42 ==
    {By({"sp"}, ctr39), To(Reg, 43), By({"#"}, ctr41), To({"%"}, 44), To({"/"}, 26),
     To({":"}, 46), By({"?"}, ctr44), To({"["}, 47)}
st_case_43 ==
    {By({"sp"}, ctr39), To(Reg, 43), By({"#"}, ctr41), To({"%"}, 44), To({"/"}, 26),
     To({":"}, 46), By({"?"}, ctr44)}
st_case_44 == {To(Hex, 45)}
st_case_45 == {To(Hex, 43)}
st_case_46 == {By({"sp"}, ctr39), By({"#"}, ctr41), To({"/"}, 26), To(Digit, 46), By({"?"}, ctr44)}
st_case_47 == {To({"ack"}, 48), To(Hex, 91), To({":"}, 167), To({"v"}, 169)}
st_case_48 == {To(Hex, 49)}
st_case_49 == {To(Hex, 50), To({":"}, 53)}
st_case_50 == {To(Hex, 51), To({":"}, 53)}
st_case_51 == {To(Hex, 52), To({":"}, 53)}
st_case_52 == {To({":"}, 53)}
st_case_53 == {To({"0", "3", "5"}, 54), To({"1"}, 84), To({"2"}, 87), To(Hex \ Digit, 90)}
st_case_54 == {To({"."}, 55), To(Hex, 77), To({":"}, 80)}
st_case_55 == {To({"0", "3", "5"}, 56), To({"1"}, 72), To({"2"}, 74)}
st_case_56 == {To({"."}, 57)}
st_case_57 == {To({"0", "3", "5"}, 58), To({"1"}, 67), To({"2"}, 69)}
st_case_58 == {To({"."}, 59)}
st_case_59 == {To({"0", "3", "5"}, 60), To({"1"}, 62), To({"2"}, 64)}
st_case_60 == {To({"]"}, 61)}
st_case_61 == {By({"sp"}, ctr39), By({"#"}, ctr41), To({"/"}, 26), To({":"}, 46), By({"?"}, ctr44)}
st_case_62 == {To(Digit, 63), To({"]"}, 61)}
st_case_63 == {To(Digit, 60), To({"]"}, 61)}
st_case_64 == {To({"0"}, 65), To({"5"}, 66), To({"]"}, 61)}
st_case_65 == {To(Digit, 60)}
st_case_66 == {To({"0"}, 60)}
st_case_67 == {To({"."}, 59), To(Digit, 68)}
st_case_68 == {To({"."}, 59), To(Digit, 58)}
st_case_69 == {To({"."}, 59), To({"0"}, 70), To({"5"}, 71)}
st_case_70 == {To(Digit, 58)}
st_case_71 == {To({"0"}, 58)}
st_case_72 == {To({"."}, 57), To(Digit, 73)}
st_case_73 == {To({"."}, 57), To(Digit, 56)}
st_case_74 == {To({"."}, 57), To({"0"}, 75), To({"5"}, 76)}
st_case_75 == {To(Digit, 56)}
st_case_76 == {To({"0"}, 56)}
st_case_77 == {To(Hex, 78), To({":"}, 80)}
st_case_78 == {To(Hex, 79), To({":"}, 80)}
st_case_79 == {To({":"}, 80)}
st_case_80 == {To(Hex, 81)}
st_case_81 == {To(Hex, 82), To({"]"}, 61)}
st_case_82 == {To(Hex, 83), To({"]"}, 61)}
st_case_83 == {To(Hex, 60), To({"]"}, 61)}
st_case_84 == {To({"."}, 55), To(Digit, 85), To({":"}, 80), To(Hex \ Digit, 77)}
st_case_85 == {To({"."}, 55), To(Digit, 86), To({":"}, 80), To(Hex \ Digit, 78)}
st_case_86 == {To({"."}, 55), To(Hex, 79), To({":"}, 80)}
st_case_87 ==
    {To({"."}, 55), To({"0"}, 88), To(Hex \ {"0", "5"}, 77), To({"5"}, 89), To({":"}, 80)}
st_case_88 == {To(Digit, 86), To({":"}, 80), To(Hex \ Digit, 78)}
st_case_89 == {To({"0"}, 86), To(Hex \ {"0"}, 78), To({":"}, 80)}
st_case_90 == {To(Hex, 77), To({":"}, 80)}
st_case_91 == {To(Hex, 92), To({":"}, 95)}
st_case_92 == {To(Hex, 93), To({":"}, 95)}
st_case_93 == {To(Hex, 94), To({":"}, 95)}
st_case_94 == {To({":"}, 95)}
st_case_95 == {To(Hex, 96), To({":"}, 166)}
st_case_96 == {To(Hex, 97), To({":"}, 100)}
st_case_97 == {To(Hex, 98), To({":"}, 100)}
st_case_98 == {To(Hex, 99), To({":"}, 100)}
st_case_99 == {To({":"}, 100)}
st_case_100 == {To(Hex, 101), To({":"}, 165)}
st_case_101 == {To(Hex, 102), To({":"}, 105)}
st_case_102 == {To(Hex, 103), To({":"}, 105)}
st_case_103 == {To(Hex, 104), To({":"}, 105)}
st_case_104 == {To({":"}, 105)}
st_case_105 == {To(Hex, 106), To({":"}, 164)}
st_case_106 == {To(Hex, 107), To({":"}, 110)}
st_case_107 == {To(Hex, 108), To({":"}, 110)}
st_case_108 == {To(Hex, 109), To({":"}, 110)}
st_case_109 == {To({":"}, 110)}
st_case_110 == {To(Hex, 111), To({":"}, 163)}
st_case_111 == {To(Hex, 112), To({":"}, 115)}
st_case_112 == {To(Hex, 113), To({":"}, 115)}
st_case_113 == {To(Hex, 114), To({":"}, 115)}
st_case_114 == {To({":"}, 115)}
st_case_115 == {To(Hex, 116), To({":"}, 151)}
st_case_116 == {To(Hex, 117), To({":"}, 120)}
st_case_117 == {To(Hex, 118), To({":"}, 120)}
st_case_118 == {To(Hex, 119), To({":"}, 120)}
st_case_119 == {To({":"}, 120)}
st_case_120 == {To(Hex, 121), To({":"}, 150)}
st_case_121 == {To(Hex, 122), To({":"}, 125)}
st_case_122 == {To(Hex, 123), To({":"}, 125)}
st_case_123 == {To(Hex, 124), To({":"}, 125)}
st_case_124 == {To({":"}, 125)}
st_case_125 == {To(Hex, 121), To({":"}, 126)}
st_case_126 ==
    {To({"stx", "etx"}, 48), To({"0", "3", "5"}, 127), To({"1"}, 143), To({"2"}, 146),
     To(Hex \ Digit, 149), To({"]"}, 61)}
st_case_127 == {To({"."}, 55), To(Hex, 128), To({":"}, 131), To({"]"}, 61)}
st_case_128 == {To(Hex, 129), To({":"}, 131), To({"]"}, 61)}
st_case_129 == {To(Hex, 130), To({":"}, 131), To({"]"}, 61)}
st_case_130 == {To({":"}, 131), To({"]"}, 61)}
st_case_131 == {To({"0", "3", "5"}, 132), To({"1"}, 136), To({"2"}, 139), To(Hex \ Digit, 142)}
st_case_132 == {To({"."}, 55), To(Hex, 133), To({":"}, 80), To({"]"}, 61)}
st_case_133 == {To(Hex, 134), To({":"}, 80), To({"]"}, 61)}
st_case_134 == {To(Hex, 135), To({":"}, 80), To({"]"}, 61)}
st_case_135 == {To({":"}, 80), To({"]"}, 61)}
st_case_136 == {To({"."}, 55), To(Digit, 137), To({":"}, 80), To(Hex \ Digit, 133), To({"]"}, 61)}
st_case_137 == {To({"."}, 55), To(Digit, 138), To({":"}, 80), To(Hex \ Digit, 134), To({"]"}, 61)}
st_case_138 == {To({"."}, 55), To(Hex, 135), To({":"}, 80), To({"]"}, 61)}
st_case_139 ==
    {To({"."}, 55), To({"0"}, 140), To(Hex \ {"0", "5"}, 133), To({"5"}, 141), To({":"}, 80),
     To({"]"}, 61)}
st_case_140 == {To(Digit, 138), To({":"}, 80), To(Hex \ Digit, 134), To({"]"}, 61)}
st_case_141 == {To({"0"}, 138), To(Hex \ {"0"}, 134), To({":"}, 80), To({"]"}, 61)}
st_case_142 == {To(Hex, 133), To({":"}, 80), To({"]"}, 61)}
st_case_143 == {To({"."}, 55), To(Digit, 144), To({":"}, 131), To(Hex \ Digit, 128), To({"]"}, 61)}
st_case_144 == {To({"."}, 55), To(Digit, 145), To({":"}, 131), To(Hex \ Digit, 129), To({"]"}, 61)}
st_case_145 == {To({"."}, 55), To(Hex, 130), To({":"}, 131), To({"]"}, 61)}
st_case_146 ==
    {To({"."}, 55), To({"0"}, 147), To(Hex \ {"0", "5"}, 128), To({"5"}, 148), To({":"}, 131),
     To({"]"}, 61)}
st_case_147 == {To(Digit, 145), To({":"}, 131), To(Hex \ Digit, 129), To({"]"}, 61)}
st_case_148 == {To({"0"}, 145), To(Hex \ {"0"}, 129), To({":"}, 131), To({"]"}, 61)}
st_case_149 == {To(Hex, 128), To({":"}, 131), To({"]"}, 61)}
st_case_150 ==
    {To({"stx", "etx"}, 48), To({"0", "3", "5"}, 127), To({"1"}, 143), To({"2"}, 146),
     To(Hex \ Digit, 149)}
st_case_151 ==
    {To({"stx", "etx"}, 48), To({"0", "3", "5"}, 152), To({"1"}, 156), To({"2"}, 159),
     To(Hex \ Digit, 162)}
st_case_152 == {To({"."}, 55), To(Hex, 153), To({":"}, 131)}
st_case_153 == {To(Hex, 154), To({":"}, 131)}
st_case_154 == {To(Hex, 155), To({":"}, 131)}
st_case_155 == {To({":"}, 131)}
st_case_156 == {To({"."}, 55), To(Digit, 157), To({":"}, 131), To(Hex \ Digit, 153)}
st_case_157 == {To({"."}, 55), To(Digit, 158), To({":"}, 131), To(Hex \ Digit, 154)}
st_case_158 == {To({"."}, 55), To(Hex, 155), To({":"}, 131)}
st_case_159 ==
    {To({"."}, 55), To({"0"}, 160), To(Hex \ {"0", "5"}, 153), To({"5"}, 161), To({":"}, 131)}
st_case_160 == {To(Digit, 158), To({":"}, 131), To(Hex \ Digit, 154)}
st_case_161 == {To({"0"}, 158), To(Hex \ {"0"}, 154), To({":"}, 131)}
st_case_162 == {To(Hex, 153), To({":"}, 131)}
st_case_163 == {To({"stx", "etx"}, 48), To(Hex, 49)}
st_case_164 == {To({"stx", "etx"}, 48)}
st_case_165 == {To({"etx"}, 48)}
st_case_166 == {To({"eot"}, 48)}
st_case_167 == {To({":"}, 168)}
st_case_168 ==
    {To({"stx", "etx", "eot", "enq"}, 48), To({"0", "3", "5"}, 127), To({"1"}, 143),
     To({"2"}, 146), To(Hex \ Digit, 149), To({"]"}, 61)}
st_case_169 == {To(Hex, 170)}
st_case_170 == {To({"."}, 171), To(Hex, 170)}
st_case_171 == {To(Reg \cup {":"}, 172)}
st_case_172 == {To(Reg \cup {":"}, 172), To({"]"}, 61)}
st_case_173 ==
    {By({"sp"}, ctr39), To(Relaxed \cup {"!", "(", "@"}, 19), By({"#"}, ctr41), To({"%"}, 24),
     To(Named \ {"!", "("}, 173), To({"/"}, 26), To({":"}, 174), By({"?"}, ctr44)}
st_case_174 ==
    {By(Pchar \ Relaxed, ctr215), By({"sp"}, ctr6), By({"#"}, ctr8), By({"%"}, ctr216),
     By({"/"}, ctr10), By({"?"}, ctr11), By(Relaxed, ctr217)}
=============================================================================
