----------------------------- MODULE UriStates1 -----------------------------
(* The states of UriMachine in the order of the generated code, part 1 of 3.  *)
EXTENDS UriActions

st_case_451 ==
    {To(Pchar \ (Alpha \cup {":"}), 452), To({"#"}, 453), To({"%"}, 3), To({"/"}, 458),
     To({"?"}, 456), By(Alpha, ctr461)}
st_case_452 ==
    {To(Pchar \ {":"}, 452), To({"#"}, 453), To({"%"}, 3), To({"/"}, 455), To({"?"}, 456)}
st_case_453 == {By(Pchar \cup {"/", "?"}, ctr462), By({"%"}, ctr463)}
st_case_454 == {To(Pchar \cup {"/", "?"}, 454), To({"%"}, 1)}
st_case_1 == {To(Hex, 2)}
st_case_2 == {To(Hex, 454)}
st_case_3 == {To(Hex, 4)}
st_case_4 == {To(Hex, 452)}
st_case_455 == {To(Pchar \cup {"/"}, 455), To({"#"}, 453), To({"%"}, 5), To({"?"}, 456)}
st_case_5 == {To(Hex, 6)}
st_case_6 == {To(Hex, 455)}
st_case_456 == {By(Pchar \cup {"/", "?"}, ctr466), By({"#"}, ctr467), By({"%"}, ctr468)}
st_case_457 == {To(Pchar \cup {"/", "?"}, 457), By({"#"}, ctr469), To({"%"}, 7)}
st_case_7 == {To(Hex, 8)}
st_case_8 == {To(Hex, 457)}
st_case_458 == {To(Pchar, 455), To({"#"}, 453), To({"%"}, 5), To({"/"}, 459), To({"?"}, 456)}
st_case_459 ==
    {By({"stx"}, ctr472), By(Reg \ Digit, ctr473), By({"#"}, ctr474), By({"%"}, ctr475),
     By({"/"}, ctr476), By({"0"}, ctr477), By({"1"}, ctr478), By({"2"}, ctr479),
     By({"3", "5", "6"}, ctr480), By({":"}, ctr481), By({"?"}, ctr482), By({"@"}, ctr483),
     By({"["}, ctr484)}
st_case_9 == {To(Digit \ {"5", "6"}, 10)}
st_case_10 == {To(Digit, 11)}
st_case_11 == {To({"."}, 12)}
st_case_12 ==
    {To({"stx"}, 13), To({"0"}, 15), To({"1"}, 27), To({"2"}, 29), To({"3", "5", "6"}, 28)}
st_case_13 == {To(Digit \ {"5", "6"}, 14)}
st_case_14 == {To(Digit, 15)}
st_case_15 == {To({"."}, 16)}
st_case_16 ==
    {To({"stx"}, 17), To({"0"}, 19), To({"1"}, 23), To({"2"}, 25), To({"3", "5", "6"}, 24)}
st_case_17 == {To(Digit \ {"5", "6"}, 18)}
st_case_18 == {To(Digit, 19)}
st_case_19 == {To({"."}, 20)}
st_case_20 ==
    {To({"stx"}, 21), To({"0"}, 460), To({"1"}, 463), To({"2"}, 465), To({"3", "5", "6"}, 464)}
st_case_21 == {To(Digit \ {"5", "6"}, 22)}
st_case_22 == {To(Digit, 460)}
st_case_460 == {By({"#"}, ctr485), By({"/"}, ctr486), By({":"}, ctr487), By({"?"}, ctr488)}
st_case_461 == {By({"#"}, ctr489), By({"/"}, ctr490), By(Digit, ctr491), By({"?"}, ctr492)}
st_case_462 == {By({"#"}, ctr493), By({"/"}, ctr494), To(Digit, 462), By({"?"}, ctr496)}
st_case_463 ==
    {By({"#"}, ctr485), By({"/"}, ctr486), To(Digit, 464), By({":"}, ctr487), By({"?"}, ctr488)}
st_case_464 ==
    {By({"#"}, ctr485), By({"/"}, ctr486), To(Digit, 460), By({":"}, ctr487), By({"?"}, ctr488)}
st_case_465 ==
    {By({"#"}, ctr485), By({"/"}, ctr486), To(Digit \ {"5"}, 460), To({"5"}, 466),
     By({":"}, ctr487), By({"?"}, ctr488)}
st_case_466 ==
    {By({"#"}, ctr485), By({"/"}, ctr486), To(Digit \ {"6"}, 460), By({":"}, ctr487),
     By({"?"}, ctr488)}
st_case_23 == {To({"."}, 20), To(Digit, 24)}
st_case_24 == {To({"."}, 20), To(Digit, 19)}
st_case_25 == {To({"."}, 20), To(Digit \ {"5"}, 19), To({"5"}, 26)}
st_case_26 == {To({"."}, 20), To(Digit \ {"6"}, 19)}
st_case_27 == {To({"."}, 16), To(Digit, 28)}
st_case_28 == {To({"."}, 16), To(Digit, 15)}
st_case_29 == {To({"."}, 16), To(Digit \ {"5"}, 15), To({"5"}, 30)}
st_case_30 == {To({"."}, 16), To(Digit \ {"6"}, 15)}
st_case_467 ==
    {To(Reg, 467), By({"#"}, ctr485), To({"%"}, 31), By({"/"}, ctr486), By({":"}, ctr499),
     By({"?"}, ctr488), By({"@"}, ctr38)}
st_case_31 == {To(Hex, 32)}
st_case_32 == {To(Hex, 467)}
st_case_468 ==
    {To((Reg \ Digit) \cup {":"}, 33), By({"#"}, ctr489), To({"%"}, 34), By({"/"}, ctr490),
     By(Digit, ctr500), By({"?"}, ctr492), By({"@"}, ctr38)}
st_case_33 == {To(Reg \cup {":"}, 33), To({"%"}, 34), By({"@"}, ctr38)}
st_case_34 == {To(Hex, 35)}
st_case_35 == {To(Hex, 33)}
st_case_469 ==
    {By({"stx"}, ctr472), By(Reg \ Digit, ctr501), By({"#"}, ctr474), By({"%"}, ctr502),
     By({"/"}, ctr476), By({"0"}, ctr503), By({"1"}, ctr504), By({"2"}, ctr505),
     By({"3", "5", "6"}, ctr506), By({":"}, ctr507), By({"?"}, ctr482), By({"["}, ctr484)}
st_case_470 ==
    {To(Reg, 470), By({"#"}, ctr485), To({"%"}, 36), By({"/"}, ctr486), By({":"}, ctr487),
     By({"?"}, ctr488)}
st_case_36 == {To(Hex, 37)}
st_case_37 == {To(Hex, 470)}
st_case_471 ==
    {To(Reg \ {"."}, 470), By({"#"}, ctr485), To({"%"}, 36), To({"."}, 472), By({"/"}, ctr486),
     By({":"}, ctr487), By({"?"}, ctr488)}
st_case_472 ==
    {To({"stx"}, 13), To(Reg \ Digit, 470), By({"#"}, ctr485), To({"%"}, 36), By({"/"}, ctr486),
     To({"0"}, 473), To({"1"}, 481), To({"2"}, 483), To({"3", "5", "6"}, 482), By({":"}, ctr487),
     By({"?"}, ctr488)}
st_case_473 ==
    {To(Reg \ {"."}, 470), By({"#"}, ctr485), To({"%"}, 36), To({"."}, 474), By({"/"}, ctr486),
     By({":"}, ctr487), By({"?"}, ctr488)}
st_case_474 ==
    {To({"stx"}, 17), To(Reg \ Digit, 470), By({"#"}, ctr485), To({"%"}, 36), By({"/"}, ctr486),
     To({"0"}, 475), To({"1"}, 477), To({"2"}, 479), To({"3", "5", "6"}, 478), By({":"}, ctr487),
     By({"?"}, ctr488)}
st_case_475 ==
    {To(Reg \ {"."}, 470), By({"#"}, ctr485), To({"%"}, 36), To({"."}, 476), By({"/"}, ctr486),
     By({":"}, ctr487), By({"?"}, ctr488)}
st_case_476 ==
    {To({"stx"}, 21), To(Reg, 470), By({"#"}, ctr485), To({"%"}, 36), By({"/"}, ctr486),
     By({":"}, ctr487), By({"?"}, ctr488)}
st_case_477 ==
    {To(Alpha \cup {"!", "+"}, 470), By({"#"}, ctr485), To({"%"}, 36), To({"."}, 476),
     By({"/"}, ctr486), To(Digit, 478), By({":"}, ctr487), By({"?"}, ctr488)}
st_case_478 ==
    {To(Alpha \cup {"!", "+"}, 470), By({"#"}, ctr485), To({"%"}, 36), To({"."}, 476),
     By({"/"}, ctr486), To(Digit, 475), By({":"}, ctr487), By({"?"}, ctr488)}
st_case_479 ==
    {To(Alpha \cup {"!", "+"}, 470), By({"#"}, ctr485), To({"%"}, 36), To({"."}, 476),
     By({"/"}, ctr486), To(Digit \ {"5"}, 475), To({"5"}, 480), By({":"}, ctr487),
     By({"?"}, ctr488)}
st_case_480 ==
    {To(Alpha \cup {"!", "+", "6"}, 470), By({"#"}, ctr485), To({"%"}, 36), To({"."}, 476),
     By({"/"}, ctr486), To(Digit \ {"6"}, 475), By({":"}, ctr487), By({"?"}, ctr488)}
st_case_481 ==
    {To(Alpha \cup {"!", "+"}, 470), By({"#"}, ctr485), To({"%"}, 36), To({"."}, 474),
     By({"/"}, ctr486), To(Digit, 482), By({":"}, ctr487), By({"?"}, ctr488)}
st_case_482 ==
    {To(Alpha \cup {"!", "+"}, 470), By({"#"}, ctr485), To({"%"}, 36), To({"."}, 474),
     By({"/"}, ctr486), To(Digit, 473), By({":"}, ctr487), By({"?"}, ctr488)}
st_case_483 ==
    {To(Alpha \cup {"!", "+"}, 470), By({"#"}, ctr485), To({"%"}, 36), To({"."}, 474),
     By({"/"}, ctr486), To(Digit \ {"5"}, 473), To({"5"}, 484), By({":"}, ctr487),
     By({"?"}, ctr488)}
st_case_484 ==
    {To(Alpha \cup {"!", "+", "6"}, 470), By({"#"}, ctr485), To({"%"}, 36), To({"."}, 474),
     By({"/"}, ctr486), To(Digit \ {"6"}, 473), By({":"}, ctr487), By({"?"}, ctr488)}
st_case_485 ==
    {To(Alpha \cup {"!", "+"}, 470), By({"#"}, ctr485), To({"%"}, 36), To({"."}, 472),
     By({"/"}, ctr486), To(Digit, 486), By({":"}, ctr487), By({"?"}, ctr488)}
st_case_486 ==
    {To(Alpha \cup {"!", "+"}, 470), By({"#"}, ctr485), To({"%"}, 36), To({"."}, 472),
     By({"/"}, ctr486), To(Digit, 471), By({":"}, ctr487), By({"?"}, ctr488)}
st_case_487 ==
    {To(Alpha \cup {"!", "+"}, 470), By({"#"}, ctr485), To({"%"}, 36), To({"."}, 472),
     By({"/"}, ctr486), To(Digit \ {"5"}, 471), To({"5"}, 488), By({":"}, ctr487),
     By({"?"}, ctr488)}
st_case_488 ==
    {To(Alpha \cup {"!", "+", "6"}, 470), By({"#"}, ctr485), To({"%"}, 36), To({"."}, 472),
     By({"/"}, ctr486), To(Digit \ {"6"}, 471), By({":"}, ctr487), By({"?"}, ctr488)}
st_case_38 == {To(Hex, 39), To({":"}, 146), To({"v"}, 225)}
st_case_39 == {To(Hex, 40), To({":"}, 43)}
st_case_40 == {To(Hex, 41), To({":"}, 43)}
st_case_41 == {To(Hex, 42), To({":"}, 43)}
st_case_42 == {To({":"}, 43)}
st_case_43 == {To(Hex, 44), To({":"}, 141)}
st_case_44 == {To(Hex, 45), To({":"}, 48)}
st_case_45 == {To(Hex, 46), To({":"}, 48)}
st_case_46 == {To(Hex, 47), To({":"}, 48)}
st_case_47 == {To({":"}, 48)}
st_case_48 == {To(Hex, 49), To({":"}, 136)}
st_case_49 == {To(Hex, 50), To({":"}, 53)}
st_case_50 == {To(Hex, 51), To({":"}, 53)}
st_case_51 == {To(Hex, 52), To({":"}, 53)}
st_case_52 == {To({":"}, 53)}
st_case_53 == {To(Hex, 54), To({":"}, 131)}
st_case_54 == {To(Hex, 55), To({":"}, 58)}
st_case_55 == {To(Hex, 56), To({":"}, 58)}
st_case_56 == {To(Hex, 57), To({":"}, 58)}
st_case_57 == {To({":"}, 58)}
st_case_58 == {To(Hex, 59), To({":"}, 126)}
st_case_59 == {To(Hex, 60), To({":"}, 63)}
st_case_60 == {To(Hex, 61), To({":"}, 63)}
st_case_61 == {To(Hex, 62), To({":"}, 63)}
st_case_62 == {To({":"}, 63)}
st_case_63 == {To(Hex, 64), To({":"}, 113)}
st_case_64 == {To(Hex, 65), To({":"}, 68)}
st_case_65 == {To(Hex, 66), To({":"}, 68)}
st_case_66 == {To(Hex, 67), To({":"}, 68)}
st_case_67 == {To({":"}, 68)}
st_case_68 ==
    {To({"stx"}, 69), To({"0"}, 96), To({"1"}, 104), To({"2"}, 107), To({"3", "5", "6"}, 110),
     To({":"}, 111), To({"a"}, 112)}
st_case_69 == {To(Digit \ {"5", "6"}, 70)}
st_case_70 == {To(Digit, 71)}
st_case_71 == {To({"."}, 72)}
st_case_72 ==
    {To({"stx"}, 73), To({"0"}, 75), To({"1"}, 92), To({"2"}, 94), To({"3", "5", "6"}, 93)}
st_case_73 == {To(Digit \ {"5", "6"}, 74)}
st_case_74 == {To(Digit, 75)}
st_case_75 == {To({"."}, 76)}
st_case_76 ==
    {To({"stx"}, 77), To({"0"}, 79), To({"1"}, 88), To({"2"}, 90), To({"3", "5", "6"}, 89)}
st_case_77 == {To(Digit \ {"5", "6"}, 78)}
st_case_78 == {To(Digit, 79)}
st_case_79 == {To({"."}, 80)}
st_case_80 ==
    {To({"stx"}, 81), To({"0"}, 83), To({"1"}, 84), To({"2"}, 86), To({"3", "5", "6"}, 85)}
st_case_81 == {To(Digit \ {"5", "6"}, 82)}
st_case_82 == {To(Digit, 83)}
st_case_83 == {To({"]"}, 460)}
st_case_84 == {To(Digit, 85), To({"]"}, 460)}
st_case_85 == {To(Digit, 83), To({"]"}, 460)}
st_case_86 == {To(Digit \ {"5"}, 83), To({"5"}, 87), To({"]"}, 460)}
st_case_87 == {To(Digit \ {"6"}, 83), To({"]"}, 460)}
st_case_88 == {To({"."}, 80), To(Digit, 89)}
st_case_89 == {To({"."}, 80), To(Digit, 79)}
st_case_90 == {To({"."}, 80), To(Digit \ {"5"}, 79), To({"5"}, 91)}
st_case_91 == {To({"."}, 80), To(Digit \ {"6"}, 79)}
st_case_92 == {To({"."}, 76), To(Digit, 93)}
st_case_93 == {To({"."}, 76), To(Digit, 75)}
st_case_94 == {To({"."}, 76), To(Digit \ {"5"}, 75), To({"5"}, 95)}
st_case_95 == {To({"."}, 76), To(Digit \ {"6"}, 75)}
st_case_96 == {To({"."}, 72), To(Hex, 97), To({":"}, 100)}
st_case_97 == {To(Hex, 98), To({":"}, 100)}
st_case_98 == {To(Hex, 99), To({":"}, 100)}
st_case_99 == {To({":"}, 100)}
st_case_100 == {To(Hex, 101), To({":"}, 83)}
st_case_101 == {To(Hex, 102), To({"]"}, 460)}
st_case_102 == {To(Hex, 103), To({"]"}, 460)}
st_case_103 == {To(Hex, 83), To({"]"}, 460)}
st_case_104 == {To({"."}, 72), To(Digit, 105), To({":"}, 100), To({"a"}, 97)}
st_case_105 == {To({"."}, 72), To(Digit, 106), To({":"}, 100), To({"a"}, 98)}
st_case_106 == {To({"."}, 72), To(Hex, 99), To({":"}, 100)}
st_case_107 ==
    {To({"."}, 72), To(Digit \ {"5"}, 108), To({"5"}, 109), To({":"}, 100), To({"a"}, 97)}
st_case_108 == {To({"."}, 72), To(Hex, 98), To({":"}, 100)}
st_case_109 == {To({"."}, 72), To(Digit \ {"6"}, 106), To({"6", "a"}, 98), To({":"}, 100)}
st_case_110 == {To({"."}, 72), To(Digit, 108), To({":"}, 100), To({"a"}, 97)}
st_case_111 == {To(Hex, 101)}
st_case_112 == {To(Hex, 97), To({":"}, 100)}
st_case_113 ==
    {To({"stx"}, 69), To({"0"}, 114), To({"1"}, 118), To({"2"}, 121), To({"3", "5", "6"}, 124),
     To({"a"}, 125)}
st_case_114 == {To({"."}, 72), To(Hex, 115), To({":"}, 111)}
st_case_115 == {To(Hex, 116), To({":"}, 111)}
st_case_116 == {To(Hex, 117), To({":"}, 111)}
st_case_117 == {To({":"}, 111)}
st_case_118 == {To({"."}, 72), To(Digit, 119), To({":"}, 111), To({"a"}, 115)}
st_case_119 == {To({"."}, 72), To(Digit, 120), To({":"}, 111), To({"a"}, 116)}
st_case_120 == {To({"."}, 72), To(Hex, 117), To({":"}, 111)}
st_case_121 ==
    {To({"."}, 72), To(Digit \ {"5"}, 122), To({"5"}, 123), To({":"}, 111), To({"a"}, 115)}
st_case_122 == {To({"."}, 72), To(Hex, 116), To({":"}, 111)}
st_case_123 == {To({"."}, 72), To(Digit \ {"6"}, 120), To({"6", "a"}, 116), To({":"}, 111)}
st_case_124 == {To({"."}, 72), To(Digit, 122), To({":"}, 111), To({"a"}, 115)}
st_case_125 == {To(Hex, 115), To({":"}, 111)}
st_case_126 == {To(Hex, 127)}
st_case_127 == {To(Hex, 128), To({":"}, 113)}
st_case_128 == {To(Hex, 129), To({":"}, 113)}
st_case_129 == {To(Hex, 130), To({":"}, 113)}
st_case_130 == {To({":"}, 113)}
st_case_131 == {To(Hex, 132)}
st_case_132 == {To(Hex, 133), To({":"}, 126)}
st_case_133 == {To(Hex, 134), To({":"}, 126)}
st_case_134 == {To(Hex, 135), To({":"}, 126)}
st_case_135 == {To({":"}, 126)}
st_case_136 == {To(Hex, 137)}
st_case_137 == {To(Hex, 138), To({":"}, 131)}
st_case_138 == {To(Hex, 139), To({":"}, 131)}
st_case_139 == {To(Hex, 140), To({":"}, 131)}
st_case_140 == {To({":"}, 131)}
st_case_141 == {To(Hex, 142)}
st_case_142 == {To(Hex, 143), To({":"}, 136)}
st_case_143 == {To(Hex, 144), To({":"}, 136)}
st_case_144 == {To(Hex, 145), To({":"}, 136)}
st_case_145 == {To({":"}, 136)}
st_case_146 == {To({":"}, 147)}
st_case_147 ==
    {To({"stx"}, 69), To({"0"}, 148), To({"1"}, 217), To({"2"}, 220), To({"3", "5", "6"}, 223),
     To({"a"}, 224), To({"]"}, 460)}
st_case_148 == {To({"."}, 72), To(Hex, 149), To({":"}, 152), To({"]"}, 460)}
st_case_149 == {To(Hex, 150), To({":"}, 152), To({"]"}, 460)}
=============================================================================
