----------------------------- MODULE UriStates2 -----------------------------
(* The states of UriMachine in the order of the generated code, part 2 of 3.  *)
EXTENDS UriStates1

st_case_150 == {To(Hex, 151), To({":"}, 152), To({"]"}, 460)}
st_case_151 == {To({":"}, 152), To({"]"}, 460)}
st_case_152 ==
    {To({"stx"}, 69), To({"0"}, 153), To({"1"}, 209), To({"2"}, 212), To({"3", "5", "6"}, 215),
     To({"a"}, 216)}
st_case_153 == {To({"."}, 72), To(Hex, 154), To({":"}, 157), To({"]"}, 460)}
st_case_154 == {To(Hex, 155), To({":"}, 157), To({"]"}, 460)}
st_case_155 == {To(Hex, 156), To({":"}, 157), To({"]"}, 460)}
st_case_156 == {To({":"}, 157), To({"]"}, 460)}
st_case_157 ==
    {To({"stx"}, 69), To({"0"}, 158), To({"1"}, 201), To({"2"}, 204), To({"3", "5", "6"}, 207),
     To({"a"}, 208)}
st_case_158 == {To({"."}, 72), To(Hex, 159), To({":"}, 162), To({"]"}, 460)}
st_case_159 == {To(Hex, 160), To({":"}, 162), To({"]"}, 460)}
st_case_160 == {To(Hex, 161), To({":"}, 162), To({"]"}, 460)}
st_case_161 == {To({":"}, 162), To({"]"}, 460)}
st_case_162 ==
    {To({"stx"}, 69), To({"0"}, 163), To({"1"}, 193), To({"2"}, 196), To({"3", "5", "6"}, 199),
     To({"a"}, 200)}
st_case_163 == {To({"."}, 72), To(Hex, 164), To({":"}, 167), To({"]"}, 460)}
st_case_164 == {To(Hex, 165), To({":"}, 167), To({"]"}, 460)}
st_case_165 == {To(Hex, 166), To({":"}, 167), To({"]"}, 460)}
st_case_166 == {To({":"}, 167), To({"]"}, 460)}
st_case_167 ==
    {To({"stx"}, 69), To({"0"}, 168), To({"1"}, 185), To({"2"}, 188), To({"3", "5", "6"}, 191),
     To({"a"}, 192)}
st_case_168 == {To({"."}, 72), To(Hex, 169), To({":"}, 172), To({"]"}, 460)}
st_case_169 == {To(Hex, 170), To({":"}, 172), To({"]"}, 460)}
st_case_170 == {To(Hex, 171), To({":"}, 172), To({"]"}, 460)}
st_case_171 == {To({":"}, 172), To({"]"}, 460)}
st_case_172 ==
    {To({"stx"}, 69), To({"0"}, 173), To({"1"}, 177), To({"2"}, 180), To({"3", "5", "6"}, 183),
     To({"a"}, 184)}
st_case_173 == {To({"."}, 72), To(Hex, 174), To({":"}, 111), To({"]"}, 460)}
st_case_174 == {To(Hex, 175), To({":"}, 111), To({"]"}, 460)}
st_case_175 == {To(Hex, 176), To({":"}, 111), To({"]"}, 460)}
st_case_176 == {To({":"}, 111), To({"]"}, 460)}
st_case_177 == {To({"."}, 72), To(Digit, 178), To({":"}, 111), To({"a"}, 174), To({"]"}, 460)}
st_case_178 == {To({"."}, 72), To(Digit, 179), To({":"}, 111), To({"a"}, 175), To({"]"}, 460)}
st_case_179 == {To({"."}, 72), To(Hex, 176), To({":"}, 111), To({"]"}, 460)}
st_case_180 ==
    {To({"."}, 72), To(Digit \ {"5"}, 181), To({"5"}, 182), To({":"}, 111), To({"a"}, 174),
     To({"]"}, 460)}
st_case_181 == {To({"."}, 72), To(Hex, 175), To({":"}, 111), To({"]"}, 460)}
st_case_182 ==
    {To({"."}, 72), To(Digit \ {"6"}, 179), To({"6", "a"}, 175), To({":"}, 111), To({"]"}, 460)}
st_case_183 == {To({"."}, 72), To(Digit, 181), To({":"}, 111), To({"a"}, 174), To({"]"}, 460)}
st_case_184 == {To(Hex, 174), To({":"}, 111), To({"]"}, 460)}
st_case_185 == {To({"."}, 72), To(Digit, 186), To({":"}, 172), To({"a"}, 169), To({"]"}, 460)}
st_case_186 == {To({"."}, 72), To(Digit, 187), To({":"}, 172), To({"a"}, 170), To({"]"}, 460)}
st_case_187 == {To({"."}, 72), To(Hex, 171), To({":"}, 172), To({"]"}, 460)}
st_case_188 ==
    {To({"."}, 72), To(Digit \ {"5"}, 189), To({"5"}, 190), To({":"}, 172), To({"a"}, 169),
     To({"]"}, 460)}
st_case_189 == {To({"."}, 72), To(Hex, 170), To({":"}, 172), To({"]"}, 460)}
st_case_190 ==
    {To({"."}, 72), To(Digit \ {"6"}, 187), To({"6", "a"}, 170), To({":"}, 172), To({"]"}, 460)}
st_case_191 == {To({"."}, 72), To(Digit, 189), To({":"}, 172), To({"a"}, 169), To({"]"}, 460)}
st_case_192 == {To(Hex, 169), To({":"}, 172), To({"]"}, 460)}
st_case_193 == {To({"."}, 72), To(Digit, 194), To({":"}, 167), To({"a"}, 164), To({"]"}, 460)}
st_case_194 == {To({"."}, 72), To(Digit, 195), To({":"}, 167), To({"a"}, 165), To({"]"}, 460)}
st_case_195 == {To({"."}, 72), To(Hex, 166), To({":"}, 167), To({"]"}, 460)}
st_case_196 ==
    {To({"."}, 72), To(Digit \ {"5"}, 197), To({"5"}, 198), To({":"}, 167), To({"a"}, 164),
     To({"]"}, 460)}
st_case_197 == {To({"."}, 72), To(Hex, 165), To({":"}, 167), To({"]"}, 460)}
st_case_198 ==
    {To({"."}, 72), To(Digit \ {"6"}, 195), To({"6", "a"}, 165), To({":"}, 167), To({"]"}, 460)}
st_case_199 == {To({"."}, 72), To(Digit, 197), To({":"}, 167), To({"a"}, 164), To({"]"}, 460)}
st_case_200 == {To(Hex, 164), To({":"}, 167), To({"]"}, 460)}
st_case_201 == {To({"."}, 72), To(Digit, 202), To({":"}, 162), To({"a"}, 159), To({"]"}, 460)}
st_case_202 == {To({"."}, 72), To(Digit, 203), To({":"}, 162), To({"a"}, 160), To({"]"}, 460)}
st_case_203 == {To({"."}, 72), To(Hex, 161), To({":"}, 162), To({"]"}, 460)}
st_case_204 ==
    {To({"."}, 72), To(Digit \ {"5"}, 205), To({"5"}, 206), To({":"}, 162), To({"a"}, 159),
     To({"]"}, 460)}
st_case_205 == {To({"."}, 72), To(Hex, 160), To({":"}, 162), To({"]"}, 460)}
st_case_206 ==
    {To({"."}, 72), To(Digit \ {"6"}, 203), To({"6", "a"}, 160), To({":"}, 162), To({"]"}, 460)}
st_case_207 == {To({"."}, 72), To(Digit, 205), To({":"}, 162), To({"a"}, 159), To({"]"}, 460)}
st_case_208 == {To(Hex, 159), To({":"}, 162), To({"]"}, 460)}
st_case_209 == {To({"."}, 72), To(Digit, 210), To({":"}, 157), To({"a"}, 154), To({"]"}, 460)}
st_case_210 == {To({"."}, 72), To(Digit, 211), To({":"}, 157), To({"a"}, 155), To({"]"}, 460)}
st_case_211 == {To({"."}, 72), To(Hex, 156), To({":"}, 157), To({"]"}, 460)}
st_case_212 ==
    {To({"."}, 72), To(Digit \ {"5"}, 213), To({"5"}, 214), To({":"}, 157), To({"a"}, 154),
     To({"]"}, 460)}
st_case_213 == {To({"."}, 72), To(Hex, 155), To({":"}, 157), To({"]"}, 460)}
st_case_214 ==
    {To({"."}, 72), To(Digit \ {"6"}, 211), To({"6", "a"}, 155), To({":"}, 157), To({"]"}, 460)}
st_case_215 == {To({"."}, 72), To(Digit, 213), To({":"}, 157), To({"a"}, 154), To({"]"}, 460)}
st_case_216 == {To(Hex, 154), To({":"}, 157), To({"]"}, 460)}
st_case_217 == {To({"."}, 72), To(Digit, 218), To({":"}, 152), To({"a"}, 149), To({"]"}, 460)}
st_case_218 == {To({"."}, 72), To(Digit, 219), To({":"}, 152), To({"a"}, 150), To({"]"}, 460)}
st_case_219 == {To({"."}, 72), To(Hex, 151), To({":"}, 152), To({"]"}, 460)}
st_case_220 ==
    {To({"."}, 72), To(Digit \ {"5"}, 221), To({"5"}, 222), To({":"}, 152), To({"a"}, 149),
     To({"]"}, 460)}
st_case_221 == {To({"."}, 72), To(Hex, 150), To({":"}, 152), To({"]"}, 460)}
st_case_222 ==
    {To({"."}, 72), To(Digit \ {"6"}, 219), To({"6", "a"}, 150), To({":"}, 152), To({"]"}, 460)}
st_case_223 == {To({"."}, 72), To(Digit, 221), To({":"}, 152), To({"a"}, 149), To({"]"}, 460)}
st_case_224 == {To(Hex, 149), To({":"}, 152), To({"]"}, 460)}
st_case_225 == {To(Hex, 226)}
st_case_226 == {To({"."}, 227), To(Hex, 226)}
st_case_227 == {To(Reg \cup {":"}, 228)}
st_case_228 == {To(Reg \cup {":"}, 228), To({"]"}, 460)}
st_case_489 ==
    {To((Reg \ Digit) \cup {":"}, 33), By({"#"}, ctr493), To({"%"}, 34), By({"/"}, ctr494),
     To(Digit, 489), By({"?"}, ctr496), By({"@"}, ctr38)}
st_case_490 ==
    {To(Reg \ {"."}, 467), By({"#"}, ctr485), To({"%"}, 31), To({"."}, 491), By({"/"}, ctr486),
     By({":"}, ctr499), By({"?"}, ctr488), By({"@"}, ctr38)}
st_case_491 ==
    {To({"stx"}, 13), To(Reg \ Digit, 467), By({"#"}, ctr485), To({"%"}, 31), By({"/"}, ctr486),
     To({"0"}, 492), To({"1"}, 500), To({"2"}, 502), To({"3", "5", "6"}, 501), By({":"}, ctr499),
     By({"?"}, ctr488), By({"@"}, ctr38)}
st_case_492 ==
    {To(Reg \ {"."}, 467), By({"#"}, ctr485), To({"%"}, 31), To({"."}, 493), By({"/"}, ctr486),
     By({":"}, ctr499), By({"?"}, ctr488), By({"@"}, ctr38)}
st_case_493 ==
    {To({"stx"}, 17), To(Reg \ Digit, 467), By({"#"}, ctr485), To({"%"}, 31), By({"/"}, ctr486),
     To({"0"}, 494), To({"1"}, 496), To({"2"}, 498), To({"3", "5", "6"}, 497), By({":"}, ctr499),
     By({"?"}, ctr488), By({"@"}, ctr38)}
st_case_494 ==
    {To(Reg \ {"."}, 467), By({"#"}, ctr485), To({"%"}, 31), To({"."}, 495), By({"/"}, ctr486),
     By({":"}, ctr499), By({"?"}, ctr488), By({"@"}, ctr38)}
st_case_495 ==
    {To({"stx"}, 21), To(Reg, 467), By({"#"}, ctr485), To({"%"}, 31), By({"/"}, ctr486),
     By({":"}, ctr499), By({"?"}, ctr488), By({"@"}, ctr38)}
st_case_496 ==
    {To(Alpha \cup {"!", "+"}, 467), By({"#"}, ctr485), To({"%"}, 31), To({"."}, 495),
     By({"/"}, ctr486), To(Digit, 497), By({":"}, ctr499), By({"?"}, ctr488), By({"@"}, ctr38)}
st_case_497 ==
    {To(Alpha \cup {"!", "+"}, 467), By({"#"}, ctr485), To({"%"}, 31), To({"."}, 495),
     By({"/"}, ctr486), To(Digit, 494), By({":"}, ctr499), By({"?"}, ctr488), By({"@"}, ctr38)}
st_case_498 ==
    {To(Alpha \cup {"!", "+"}, 467), By({"#"}, ctr485), To({"%"}, 31), To({"."}, 495),
     By({"/"}, ctr486), To(Digit \ {"5"}, 494), To({"5"}, 499), By({":"}, ctr499),
     By({"?"}, ctr488), By({"@"}, ctr38)}
st_case_499 ==
    {To(Alpha \cup {"!", "+", "6"}, 467), By({"#"}, ctr485), To({"%"}, 31), To({"."}, 495),
     By({"/"}, ctr486), To(Digit \ {"6"}, 494), By({":"}, ctr499), By({"?"}, ctr488),
     By({"@"}, ctr38)}
st_case_500 ==
    {To(Alpha \cup {"!", "+"}, 467), By({"#"}, ctr485), To({"%"}, 31), To({"."}, 493),
     By({"/"}, ctr486), To(Digit, 501), By({":"}, ctr499), By({"?"}, ctr488), By({"@"}, ctr38)}
st_case_501 ==
    {To(Alpha \cup {"!", "+"}, 467), By({"#"}, ctr485), To({"%"}, 31), To({"."}, 493),
     By({"/"}, ctr486), To(Digit, 492), By({":"}, ctr499), By({"?"}, ctr488), By({"@"}, ctr38)}
st_case_502 ==
    {To(Alpha \cup {"!", "+"}, 467), By({"#"}, ctr485), To({"%"}, 31), To({"."}, 493),
     By({"/"}, ctr486), To(Digit \ {"5"}, 492), To({"5"}, 503), By({":"}, ctr499),
     By({"?"}, ctr488), By({"@"}, ctr38)}
st_case_503 ==
    {To(Alpha \cup {"!", "+", "6"}, 467), By({"#"}, ctr485), To({"%"}, 31), To({"."}, 493),
     By({"/"}, ctr486), To(Digit \ {"6"}, 492), By({":"}, ctr499), By({"?"}, ctr488),
     By({"@"}, ctr38)}
st_case_504 ==
    {To(Alpha \cup {"!", "+"}, 467), By({"#"}, ctr485), To({"%"}, 31), To({"."}, 491),
     By({"/"}, ctr486), To(Digit, 505), By({":"}, ctr499), By({"?"}, ctr488), By({"@"}, ctr38)}
st_case_505 ==
    {To(Alpha \cup {"!", "+"}, 467), By({"#"}, ctr485), To({"%"}, 31), To({"."}, 491),
     By({"/"}, ctr486), To(Digit, 490), By({":"}, ctr499), By({"?"}, ctr488), By({"@"}, ctr38)}
st_case_506 ==
    {To(Alpha \cup {"!", "+"}, 467), By({"#"}, ctr485), To({"%"}, 31), To({"."}, 491),
     By({"/"}, ctr486), To(Digit \ {"5"}, 490), To({"5"}, 507), By({":"}, ctr499),
     By({"?"}, ctr488), By({"@"}, ctr38)}
st_case_507 ==
    {To(Alpha \cup {"!", "+", "6"}, 467), By({"#"}, ctr485), To({"%"}, 31), To({"."}, 491),
     By({"/"}, ctr486), To(Digit \ {"6"}, 490), By({":"}, ctr499), By({"?"}, ctr488),
     By({"@"}, ctr38)}
st_case_508 ==
    {To({"byte", "!", "@"}, 452), To({"#"}, 453), To({"%"}, 3), To(Scheme, 508), To({"/"}, 455),
     By({":"}, ctr543), To({"?"}, 456)}
st_case_509 == {To(Pchar, 455), To({"#"}, 453), To({"%"}, 5), To({"/"}, 510), To({"?"}, 456)}
st_case_510 == {To(Pchar, 455), To({"#"}, 453), To({"%"}, 5), To({"/"}, 511), To({"?"}, 456)}
st_case_511 ==
    {By({"stx"}, ctr546), By(Reg \ Digit, ctr547), By({"#"}, ctr548), By({"%"}, ctr549),
     By({"/"}, ctr550), By({"0"}, ctr551), By({"1"}, ctr552), By({"2"}, ctr553),
     By({"3", "5", "6"}, ctr554), By({":"}, ctr555), By({"?"}, ctr556), By({"@"}, ctr557),
     By({"["}, ctr558)}
st_case_229 == {To(Digit \ {"5", "6"}, 230)}
st_case_230 == {To(Digit, 231)}
st_case_231 == {To({"."}, 232)}
st_case_232 ==
    {To({"stx"}, 233), To({"0"}, 235), To({"1"}, 249), To({"2"}, 251), To({"3", "5", "6"}, 250)}
st_case_233 == {To(Digit \ {"5", "6"}, 234)}
st_case_234 == {To(Digit, 235)}
st_case_235 == {To({"."}, 236)}
st_case_236 ==
    {To({"stx"}, 237), To({"0"}, 239), To({"1"}, 245), To({"2"}, 247), To({"3", "5", "6"}, 246)}
st_case_237 == {To(Digit \ {"5", "6"}, 238)}
st_case_238 == {To(Digit, 239)}
st_case_239 == {To({"."}, 240)}
st_case_240 ==
    {To({"stx"}, 241), To({"0"}, 512), To({"1"}, 516), To({"2"}, 518), To({"3", "5", "6"}, 517)}
st_case_241 == {To(Digit \ {"5", "6"}, 242)}
st_case_242 == {To(Digit, 512)}
st_case_512 == {By({"#"}, ctr559), By({"/"}, ctr560), By({":"}, ctr561), By({"?"}, ctr562)}
st_case_513 == {To(Pchar \cup {"/"}, 513), By({"#"}, ctr563), To({"%"}, 243), By({"?"}, ctr565)}
st_case_243 == {To(Hex, 244)}
st_case_244 == {To(Hex, 513)}
st_case_514 == {By({"#"}, ctr566), By({"/"}, ctr567), By(Digit, ctr568), By({"?"}, ctr569)}
st_case_515 == {By({"#"}, ctr570), By({"/"}, ctr571), To(Digit, 515), By({"?"}, ctr573)}
st_case_516 ==
    {By({"#"}, ctr559), By({"/"}, ctr560), To(Digit, 517), By({":"}, ctr561), By({"?"}, ctr562)}
st_case_517 ==
    {By({"#"}, ctr559), By({"/"}, ctr560), To(Digit, 512), By({":"}, ctr561), By({"?"}, ctr562)}
st_case_518 ==
    {By({"#"}, ctr559), By({"/"}, ctr560), To(Digit \ {"5"}, 512), To({"5"}, 519),
     By({":"}, ctr561), By({"?"}, ctr562)}
st_case_519 ==
    {By({"#"}, ctr559), By({"/"}, ctr560), To(Digit \ {"6"}, 512), By({":"}, ctr561),
     By({"?"}, ctr562)}
st_case_245 == {To({"."}, 240), To(Digit, 246)}
st_case_246 == {To({"."}, 240), To(Digit, 239)}
st_case_247 == {To({"."}, 240), To(Digit \ {"5"}, 239), To({"5"}, 248)}
st_case_248 == {To({"."}, 240), To(Digit \ {"6"}, 239)}
st_case_249 == {To({"."}, 236), To(Digit, 250)}
st_case_250 == {To({"."}, 236), To(Digit, 235)}
st_case_251 == {To({"."}, 236), To(Digit \ {"5"}, 235), To({"5"}, 252)}
st_case_252 == {To({"."}, 236), To(Digit \ {"6"}, 235)}
st_case_520 ==
    {To(Reg, 520), By({"#"}, ctr559), To({"%"}, 253), By({"/"}, ctr560), By({":"}, ctr576),
     By({"?"}, ctr562), By({"@"}, ctr263)}
st_case_253 == {To(Hex, 254)}
st_case_254 == {To(Hex, 520)}
st_case_521 ==
    {To((Reg \ Digit) \cup {":"}, 255), By({"#"}, ctr566), To({"%"}, 256), By({"/"}, ctr567),
     By(Digit, ctr577), By({"?"}, ctr569), By({"@"}, ctr263)}
st_case_255 == {To(Reg \cup {":"}, 255), To({"%"}, 256), By({"@"}, ctr263)}
st_case_256 == {To(Hex, 257)}
st_case_257 == {To(Hex, 255)}
st_case_522 ==
    {By({"stx"}, ctr546), By(Reg \ Digit, ctr578), By({"#"}, ctr548), By({"%"}, ctr579),
     By({"/"}, ctr550), By({"0"}, ctr580), By({"1"}, ctr581), By({"2"}, ctr582),
     By({"3", "5", "6"}, ctr583), By({":"}, ctr584), By({"?"}, ctr556), By({"["}, ctr558)}
st_case_523 ==
    {To(Reg, 523), By({"#"}, ctr559), To({"%"}, 258), By({"/"}, ctr560), By({":"}, ctr561),
     By({"?"}, ctr562)}
st_case_258 == {To(Hex, 259)}
st_case_259 == {To(Hex, 523)}
st_case_524 ==
    {To(Reg \ {"."}, 523), By({"#"}, ctr559), To({"%"}, 258), To({"."}, 525), By({"/"}, ctr560),
     By({":"}, ctr561), By({"?"}, ctr562)}
st_case_525 ==
    {To({"stx"}, 233), To(Reg \ Digit, 523), By({"#"}, ctr559), To({"%"}, 258),
     By({"/"}, ctr560), To({"0"}, 526), To({"1"}, 534), To({"2"}, 536), To({"3", "5", "6"}, 535),
     By({":"}, ctr561), By({"?"}, ctr562)}
st_case_526 ==
    {To(Reg \ {"."}, 523), By({"#"}, ctr559), To({"%"}, 258), To({"."}, 527), By({"/"}, ctr560),
     By({":"}, ctr561), By({"?"}, ctr562)}
st_case_527 ==
    {To({"stx"}, 237), To(Reg \ Digit, 523), By({"#"}, ctr559), To({"%"}, 258),
     By({"/"}, ctr560), To({"0"}, 528), To({"1"}, 530), To({"2"}, 532), To({"3", "5", "6"}, 531),
     By({":"}, ctr561), By({"?"}, ctr562)}
st_case_528 ==
    {To(Reg \ {"."}, 523), By({"#"}, ctr559), To({"%"}, 258), To({"."}, 529), By({"/"}, ctr560),
     By({":"}, ctr561), By({"?"}, ctr562)}
st_case_529 ==
    {To({"stx"}, 241), To(Reg, 523), By({"#"}, ctr559), To({"%"}, 258), By({"/"}, ctr560),
     By({":"}, ctr561), By({"?"}, ctr562)}
st_case_530 ==
    {To(Alpha \cup {"!", "+"}, 523), By({"#"}, ctr559), To({"%"}, 258), To({"."}, 529),
     By({"/"}, ctr560), To(Digit, 531), By({":"}, ctr561), By({"?"}, ctr562)}
st_case_531 ==
    {To(Alpha \cup {"!", "+"}, 523), By({"#"}, ctr559), To({"%"}, 258), To({"."}, 529),
     By({"/"}, ctr560), To(Digit, 528), By({":"}, ctr561), By({"?"}, ctr562)}
st_case_532 ==
    {To(Alpha \cup {"!", "+"}, 523), By({"#"}, ctr559), To({"%"}, 258), To({"."}, 529),
     By({"/"}, ctr560), To(Digit \ {"5"}, 528), To({"5"}, 533), By({":"}, ctr561),
     By({"?"}, ctr562)}
st_case_533 ==
    {To(Alpha \cup {"!", "+", "6"}, 523), By({"#"}, ctr559), To({"%"}, 258), To({"."}, 529),
     By({"/"}, ctr560), To(Digit \ {"6"}, 528), By({":"}, ctr561), By({"?"}, ctr562)}
st_case_534 ==
    {To(Alpha \cup {"!", "+"}, 523), By({"#"}, ctr559), To({"%"}, 258), To({"."}, 527),
     By({"/"}, ctr560), To(Digit, 535), By({":"}, ctr561), By({"?"}, ctr562)}
st_case_535 ==
    {To(Alpha \cup {"!", "+"}, 523), By({"#"}, ctr559), To({"%"}, 258), To({"."}, 527),
     By({"/"}, ctr560), To(Digit, 526), By({":"}, ctr561), By({"?"}, ctr562)}
st_case_536 ==
    {To(Alpha \cup {"!", "+"}, 523), By({"#"}, ctr559), To({"%"}, 258), To({"."}, 527),
     By({"/"}, ctr560), To(Digit \ {"5"}, 526), To({"5"}, 537), By({":"}, ctr561),
     By({"?"}, ctr562)}
st_case_537 ==
    {To(Alpha \cup {"!", "+", "6"}, 523), By({"#"}, ctr559), To({"%"}, 258), To({"."}, 527),
     By({"/"}, ctr560), To(Digit \ {"6"}, 526), By({":"}, ctr561), By({"?"}, ctr562)}
st_case_538 ==
    {To(Alpha \cup {"!", "+"}, 523), By({"#"}, ctr559), To({"%"}, 258), To({"."}, 525),
     By({"/"}, ctr560), To(Digit, 539), By({":"}, ctr561), By({"?"}, ctr562)}
st_case_539 ==
    {To(Alpha \cup {"!", "+"}, 523), By({"#"}, ctr559), To({"%"}, 258), To({"."}, 525),
     By({"/"}, ctr560), To(Digit, 524), By({":"}, ctr561), By({"?"}, ctr562)}
st_case_540 ==
    {To(Alpha \cup {"!", "+"}, 523), By({"#"}, ctr559), To({"%"}, 258), To({"."}, 525),
     By({"/"}, ctr560), To(Digit \ {"5"}, 524), To({"5"}, 541), By({":"}, ctr561),
     By({"?"}, ctr562)}
st_case_541 ==
    {To(Alpha \cup {"!", "+", "6"}, 523), By({"#"}, ctr559), To({"%"}, 258), To({"."}, 525),
     By({"/"}, ctr560), To(Digit \ {"6"}, 524), By({":"}, ctr561), By({"?"}, ctr562)}
st_case_260 == {To(Hex, 261), To({":"}, 368), To({"v"}, 447)}
st_case_261 == {To(Hex, 262), To({":"}, 265)}
st_case_262 == {To(Hex, 263), To({":"}, 265)}
st_case_263 == {To(Hex, 264), To({":"}, 265)}
st_case_264 == {To({":"}, 265)}
st_case_265 == {To(Hex, 266), To({":"}, 363)}
st_case_266 == {To(Hex, 267), To({":"}, 270)}
st_case_267 == {To(Hex, 268), To({":"}, 270)}
st_case_268 == {To(Hex, 269), To({":"}, 270)}
st_case_269 == {To({":"}, 270)}
st_case_270 == {To(Hex, 271), To({":"}, 358)}
st_case_271 == {To(Hex, 272), To({":"}, 275)}
st_case_272 == {To(Hex, 273), To({":"}, 275)}
st_case_273 == {To(Hex, 274), To({":"}, 275)}
st_case_274 == {To({":"}, 275)}
st_case_275 == {To(Hex, 276), To({":"}, 353)}
st_case_276 == {To(Hex, 277), To({":"}, 280)}
st_case_277 == {To(Hex, 278), To({":"}, 280)}
st_case_278 == {To(Hex, 279), To({":"}, 280)}
st_case_279 == {To({":"}, 280)}
st_case_280 == {To(Hex, 281), To({":"}, 348)}
st_case_281 == {To(Hex, 282), To({":"}, 285)}
st_case_282 == {To(Hex, 283), To({":"}, 285)}
st_case_283 == {To(Hex, 284), To({":"}, 285)}
=============================================================================
