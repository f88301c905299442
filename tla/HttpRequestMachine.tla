------------------------- MODULE HttpRequestMachine -------------------------
(* The automaton as a whole, with the last part of its states; its characters *)
(* and actions are in HttpRequestActions.                                   *)
EXTENDS HttpRequestStates

http_parser_start == 1
http_parser_first_final == 348
http_parser_error == 0

st_case_175 == {By({"sp"}, ctr4), To(Digit \cup Upper, 176)}
st_case_176 == {By({"sp"}, ctr4), To(Digit \cup Upper, 177)}
st_case_177 == {By({"sp"}, ctr4), To(Digit \cup Upper, 178)}
st_case_178 == {By({"sp"}, ctr4), To(Digit \cup Upper, 179)}
st_case_179 == {By({"sp"}, ctr4), To(Digit \cup Upper, 180)}
st_case_180 == {By({"sp"}, ctr4), To(Digit \cup Upper, 181)}
st_case_181 == {By({"sp"}, ctr4), To(Digit \cup Upper, 182)}
st_case_182 == {By({"sp"}, ctr4), To(Digit \cup Upper, 183)}
st_case_183 == {By({"sp"}, ctr4), To(Digit \cup Upper, 184)}
st_case_184 == {By({"sp"}, ctr4), To(Digit \cup Upper, 185)}
st_case_185 == {By({"sp"}, ctr4), To(Digit \cup Upper, 186)}
st_case_186 == {By({"sp"}, ctr4), To(Digit \cup Upper, 187)}
st_case_187 == {By({"sp"}, ctr4), To(Digit \cup Upper, 188)}
st_case_188 == {By({"sp"}, ctr4), To(Digit \cup Upper, 189)}
st_case_189 == {By({"sp"}, ctr4), To(Digit \cup Upper, 190)}
st_case_190 == {By({"sp"}, ctr4), To(Digit \cup Upper, 191)}
st_case_191 == {By({"sp"}, ctr4), To(Digit \cup Upper, 192)}
st_case_192 == {By({"sp"}, ctr4), To(Digit \cup Upper, 193)}
st_case_193 == {By({"sp"}, ctr4)}
st_case_194 == {To(Alnum \cup {"-", "."}, 195)}
st_case_195 ==
    {By({"tab", "lf", "vt", "cr", "sp", "/", ">"}, ctr237), To(Alnum \cup {"-", "."}, 195)}
st_case_196 == {To(Any \ {">"}, 196), To({">"}, 197)}
st_case_197 == {To(Any \ {"nul", ">"}, 196), By({"nul"}, ctr240), To({">"}, 197)}
st_case_349 == {}
st_case_198 == {By({"sp"}, ctr241), To(Reg \cup {"@"}, 202), To({"%"}, 203), To({"/"}, 208)}
st_case_199 == {By({"{", "{r"}, ctr246)}
st_case_200 == {To(Any \ {"}", "}r"}, 200), To({"}", "}r"}, 201)}
st_case_201 == {To(Any \ {"nul", "}", "}r"}, 200), By({"nul"}, ctr249), To({"}", "}r"}, 201)}
st_case_202 == {By({"sp"}, ctr241), To(Reg \cup {"@"}, 202), To({"%"}, 203), To({"/"}, 205)}
st_case_203 == {To(Hex, 204)}
st_case_204 == {To(Hex, 202)}
st_case_205 == {To(Pchar \cup {"/"}, 205), By({"sp"}, ctr241), To({"%"}, 206)}
st_case_206 == {To(Hex, 207)}
st_case_207 == {To(Hex, 205)}
st_case_208 == {To(Pchar, 205), By({"sp"}, ctr241), To({"%"}, 206), To({"/"}, 209)}
st_case_209 ==
    {By({"sp"}, ctr241), To(Reg, 210), To({"%"}, 211), To({"/"}, 205), To({":"}, 213),
     To({"@"}, 217), To({"["}, 222)}
st_case_210 ==
    {By({"sp"}, ctr241), To(Reg, 210), To({"%"}, 211), To({"/"}, 205), To({":"}, 213),
     To({"@"}, 217)}
st_case_211 == {To(Hex, 212)}
st_case_212 == {To(Hex, 210)}
st_case_213 ==
    {By({"sp"}, ctr241), To((Reg \ Digit) \cup {":"}, 214), To({"%"}, 215), To({"/"}, 205),
     To(Digit, 213), To({"@"}, 217)}
st_case_214 == {To(Reg \cup {":"}, 214), To({"%"}, 215), To({"@"}, 217)}
st_case_215 == {To(Hex, 216)}
st_case_216 == {To(Hex, 214)}
st_case_217 ==
    {By({"sp"}, ctr241), To(Reg, 218), To({"%"}, 219), To({"/"}, 205), To({":"}, 221),
     To({"["}, 222)}
st_case_218 == {By({"sp"}, ctr241), To(Reg, 218), To({"%"}, 219), To({"/"}, 205), To({":"}, 221)}
st_case_219 == {To(Hex, 220)}
st_case_220 == {To(Hex, 218)}
st_case_221 == {By({"sp"}, ctr241), To({"/"}, 205), To(Digit, 221)}
st_case_222 == {To({"ack"}, 223), To(Hex, 266), To({":"}, 342), To({"v"}, 344)}
st_case_223 == {To(Hex, 224)}
st_case_224 == {To(Hex, 225), To({":"}, 228)}
st_case_225 == {To(Hex, 226), To({":"}, 228)}
st_case_226 == {To(Hex, 227), To({":"}, 228)}
st_case_227 == {To({":"}, 228)}
st_case_228 == {To({"0", "3", "5"}, 229), To({"1"}, 259), To({"2"}, 262), To(Hex \ Digit, 265)}
st_case_229 == {To({"."}, 230), To(Hex, 252), To({":"}, 255)}
st_case_230 == {To({"0", "3", "5"}, 231), To({"1"}, 247), To({"2"}, 249)}
st_case_231 == {To({"."}, 232)}
st_case_232 == {To({"0", "3", "5"}, 233), To({"1"}, 242), To({"2"}, 244)}
st_case_233 == {To({"."}, 234)}
st_case_234 == {To({"0", "3", "5"}, 235), To({"1"}, 237), To({"2"}, 239)}
st_case_235 == {To({"]"}, 236)}
st_case_236 == {By({"sp"}, ctr241), To({"/"}, 205), To({":"}, 221)}
st_case_237 == {To(Digit, 238), To({"]"}, 236)}
st_case_238 == {To(Digit, 235), To({"]"}, 236)}
st_case_239 == {To({"0"}, 240), To({"5"}, 241), To({"]"}, 236)}
st_case_240 == {To(Digit, 235)}
st_case_241 == {To({"0"}, 235)}
st_case_242 == {To({"."}, 234), To(Digit, 243)}
st_case_243 == {To({"."}, 234), To(Digit, 233)}
st_case_244 == {To({"."}, 234), To({"0"}, 245), To({"5"}, 246)}
st_case_245 == {To(Digit, 233)}
st_case_246 == {To({"0"}, 233)}
st_case_247 == {To({"."}, 232), To(Digit, 248)}
st_case_248 == {To({"."}, 232), To(Digit, 231)}
st_case_249 == {To({"."}, 232), To({"0"}, 250), To({"5"}, 251)}
st_case_250 == {To(Digit, 231)}
st_case_251 == {To({"0"}, 231)}
st_case_252 == {To(Hex, 253), To({":"}, 255)}
st_case_253 == {To(Hex, 254), To({":"}, 255)}
st_case_254 == {To({":"}, 255)}
st_case_255 == {To(Hex, 256)}
st_case_256 == {To(Hex, 257), To({"]"}, 236)}
st_case_257 == {To(Hex, 258), To({"]"}, 236)}
st_case_258 == {To(Hex, 235), To({"]"}, 236)}
st_case_259 == {To({"."}, 230), To(Digit, 260), To({":"}, 255), To(Hex \ Digit, 252)}
st_case_260 == {To({"."}, 230), To(Digit, 261), To({":"}, 255), To(Hex \ Digit, 253)}
st_case_261 == {To({"."}, 230), To(Hex, 254), To({":"}, 255)}
st_case_262 ==
    {To({"."}, 230), To({"0"}, 263), To(Hex \ {"0", "5"}, 252), To({"5"}, 264), To({":"}, 255)}
st_case_263 == {To(Digit, 261), To({":"}, 255), To(Hex \ Digit, 253)}
st_case_264 == {To({"0"}, 261), To(Hex \ {"0"}, 253), To({":"}, 255)}
st_case_265 == {To(Hex, 252), To({":"}, 255)}
st_case_266 == {To(Hex, 267), To({":"}, 270)}
st_case_267 == {To(Hex, 268), To({":"}, 270)}
st_case_268 == {To(Hex, 269), To({":"}, 270)}
st_case_269 == {To({":"}, 270)}
st_case_270 == {To(Hex, 271), To({":"}, 341)}
st_case_271 == {To(Hex, 272), To({":"}, 275)}
st_case_272 == {To(Hex, 273), To({":"}, 275)}
st_case_273 == {To(Hex, 274), To({":"}, 275)}
st_case_274 == {To({":"}, 275)}
st_case_275 == {To(Hex, 276), To({":"}, 340)}
st_case_276 == {To(Hex, 277), To({":"}, 280)}
st_case_277 == {To(Hex, 278), To({":"}, 280)}
st_case_278 == {To(Hex, 279), To({":"}, 280)}
st_case_279 == {To({":"}, 280)}
st_case_280 == {To(Hex, 281), To({":"}, 339)}
st_case_281 == {To(Hex, 282), To({":"}, 285)}
st_case_282 == {To(Hex, 283), To({":"}, 285)}
st_case_283 == {To(Hex, 284), To({":"}, 285)}
st_case_284 == {To({":"}, 285)}
st_case_285 == {To(Hex, 286), To({":"}, 338)}
st_case_286 == {To(Hex, 287), To({":"}, 290)}
st_case_287 == {To(Hex, 288), To({":"}, 290)}
st_case_288 == {To(Hex, 289), To({":"}, 290)}
st_case_289 == {To({":"}, 290)}
st_case_290 == {To(Hex, 291), To({":"}, 326)}
st_case_291 == {To(Hex, 292), To({":"}, 295)}
st_case_292 == {To(Hex, 293), To({":"}, 295)}
st_case_293 == {To(Hex, 294), To({":"}, 295)}
st_case_294 == {To({":"}, 295)}
st_case_295 == {To(Hex, 296), To({":"}, 325)}
st_case_296 == {To(Hex, 297), To({":"}, 300)}
st_case_297 == {To(Hex, 298), To({":"}, 300)}
st_case_298 == {To(Hex, 299), To({":"}, 300)}
st_case_299 == {To({":"}, 300)}
st_case_300 == {To(Hex, 296), To({":"}, 301)}
st_case_301 ==
    {To({"stx", "etx"}, 223), To({"0", "3", "5"}, 302), To({"1"}, 318), To({"2"}, 321),
     To(Hex \ Digit, 324), To({"]"}, 236)}
st_case_302 == {To({"."}, 230), To(Hex, 303), To({":"}, 306), To({"]"}, 236)}
st_case_303 == {To(Hex, 304), To({":"}, 306), To({"]"}, 236)}
st_case_304 == {To(Hex, 305), To({":"}, 306), To({"]"}, 236)}
st_case_305 == {To({":"}, 306), To({"]"}, 236)}
st_case_306 == {To({"0", "3", "5"}, 307), To({"1"}, 311), To({"2"}, 314), To(Hex \ Digit, 317)}
st_case_307 == {To({"."}, 230), To(Hex, 308), To({":"}, 255), To({"]"}, 236)}
st_case_308 == {To(Hex, 309), To({":"}, 255), To({"]"}, 236)}
st_case_309 == {To(Hex, 310), To({":"}, 255), To({"]"}, 236)}
st_case_310 == {To({":"}, 255), To({"]"}, 236)}
st_case_311 ==
    {To({"."}, 230), To(Digit, 312), To({":"}, 255), To(Hex \ Digit, 308), To({"]"}, 236)}
st_case_312 ==
    {To({"."}, 230), To(Digit, 313), To({":"}, 255), To(Hex \ Digit, 309), To({"]"}, 236)}
st_case_313 == {To({"."}, 230), To(Hex, 310), To({":"}, 255), To({"]"}, 236)}
st_case_314 ==
    {To({"."}, 230), To({"0"}, 315), To(Hex \ {"0", "5"}, 308), To({"5"}, 316), To({":"}, 255),
     To({"]"}, 236)}
st_case_315 == {To(Digit, 313), To({":"}, 255), To(Hex \ Digit, 309), To({"]"}, 236)}
st_case_316 == {To({"0"}, 313), To(Hex \ {"0"}, 309), To({":"}, 255), To({"]"}, 236)}
st_case_317 == {To(Hex, 308), To({":"}, 255), To({"]"}, 236)}
st_case_318 ==
    {To({"."}, 230), To(Digit, 319), To({":"}, 306), To(Hex \ Digit, 303), To({"]"}, 236)}
st_case_319 ==
    {To({"."}, 230), To(Digit, 320), To({":"}, 306), To(Hex \ Digit, 304), To({"]"}, 236)}
st_case_320 == {To({"."}, 230), To(Hex, 305), To({":"}, 306), To({"]"}, 236)}
st_case_321 ==
    {To({"."}, 230), To({"0"}, 322), To(Hex \ {"0", "5"}, 303), To({"5"}, 323), To({":"}, 306),
     To({"]"}, 236)}
st_case_322 == {To(Digit, 320), To({":"}, 306), To(Hex \ Digit, 304), To({"]"}, 236)}
st_case_323 == {To({"0"}, 320), To(Hex \ {"0"}, 304), To({":"}, 306), To({"]"}, 236)}
st_case_324 == {To(Hex, 303), To({":"}, 306), To({"]"}, 236)}
st_case_325 ==
    {To({"stx", "etx"}, 223), To({"0", "3", "5"}, 302), To({"1"}, 318), To({"2"}, 321),
     To(Hex \ Digit, 324)}
st_case_326 ==
    {To({"stx", "etx"}, 223), To({"0", "3", "5"}, 327), To({"1"}, 331), To({"2"}, 334),
     To(Hex \ Digit, 337)}
st_case_327 == {To({"."}, 230), To(Hex, 328), To({":"}, 306)}
st_case_328 == {To(Hex, 329), To({":"}, 306)}
st_case_329 == {To(Hex, 330), To({":"}, 306)}
st_case_330 == {To({":"}, 306)}
st_case_331 == {To({"."}, 230), To(Digit, 332), To({":"}, 306), To(Hex \ Digit, 328)}
st_case_332 == {To({"."}, 230), To(Digit, 333), To({":"}, 306), To(Hex \ Digit, 329)}
st_case_333 == {To({"."}, 230), To(Hex, 330), To({":"}, 306)}
st_case_334 ==
    {To({"."}, 230), To({"0"}, 335), To(Hex \ {"0", "5"}, 328), To({"5"}, 336), To({":"}, 306)}
st_case_335 == {To(Digit, 333), To({":"}, 306), To(Hex \ Digit, 329)}
st_case_336 == {To({"0"}, 333), To(Hex \ {"0"}, 329), To({":"}, 306)}
st_case_337 == {To(Hex, 328), To({":"}, 306)}
st_case_338 == {To({"stx", "etx"}, 223), To(Hex, 224)}
st_case_339 == {To({"stx", "etx"}, 223)}
st_case_340 == {To({"etx"}, 223)}
st_case_341 == {To({"eot"}, 223)}
st_case_342 == {To({":"}, 343)}
st_case_343 ==
    {To({"stx", "etx", "eot", "enq"}, 223), To({"0", "3", "5"}, 302), To({"1"}, 318),
     To({"2"}, 321), To(Hex \ Digit, 324), To({"]"}, 236)}
st_case_344 == {To(Hex, 345)}
st_case_345 == {To({"."}, 346), To(Hex, 345)}
st_case_346 == {To(Reg \cup {":"}, 347)}
st_case_347 == {To(Reg \cup {":"}, 347), To({"]"}, 236)}

\* The jump to the state the machine is in.
states ==
    <<st_case_1, st_case_2, st_case_3, st_case_4, st_case_5, st_case_6, st_case_7, st_case_8,
     st_case_9, st_case_10, st_case_11, st_case_12, st_case_13, st_case_14, st_case_15,
     st_case_16, st_case_17, st_case_18, st_case_19, st_case_20, st_case_21, st_case_22,
     st_case_23, st_case_24, st_case_25, st_case_26, st_case_27, st_case_28, st_case_29,
     st_case_30, st_case_31, st_case_32, st_case_33, st_case_34, st_case_35, st_case_36,
     st_case_37, st_case_38, st_case_39, st_case_40, st_case_41, st_case_42, st_case_43,
     st_case_44, st_case_45, st_case_46, st_case_47, st_case_48, st_case_49, st_case_50,
     st_case_51, st_case_52, st_case_53, st_case_54, st_case_55, st_case_56, st_case_57,
     st_case_58, st_case_59, st_case_60, st_case_61, st_case_62, st_case_63, st_case_64,
     st_case_65, st_case_66, st_case_67, st_case_68, st_case_69, st_case_70, st_case_71,
     st_case_72, st_case_73, st_case_74, st_case_75, st_case_76, st_case_77, st_case_78,
     st_case_79, st_case_80, st_case_81, st_case_82, st_case_83, st_case_84, st_case_85,
     st_case_86, st_case_87, st_case_88, st_case_89, st_case_90, st_case_91, st_case_92,
     st_case_93, st_case_94, st_case_95, st_case_96, st_case_97, st_case_98, st_case_99,
     st_case_100, st_case_101, st_case_102, st_case_103, st_case_104, st_case_105, st_case_106,
     st_case_107, st_case_108, st_case_109, st_case_110, st_case_111, st_case_112, st_case_113,
     st_case_114, st_case_115, st_case_116, st_case_117, st_case_118, st_case_119, st_case_120,
     st_case_121, st_case_122, st_case_123, st_case_124, st_case_125, st_case_126, st_case_127,
     st_case_128, st_case_129, st_case_130, st_case_131, st_case_132, st_case_133, st_case_134,
     st_case_135, st_case_136, st_case_137, st_case_138, st_case_139, st_case_140, st_case_141,
     st_case_142, st_case_143, st_case_144, st_case_145, st_case_146, st_case_147, st_case_148,
     st_case_149, st_case_150, st_case_151, st_case_152, st_case_153, st_case_154, st_case_155,
     st_case_156, st_case_157, st_case_158, st_case_159, st_case_160, st_case_161, st_case_162,
     st_case_163, st_case_164, st_case_165, st_case_166, st_case_167, st_case_168, st_case_169,
     st_case_170, st_case_171, st_case_172, st_case_173, st_case_174, st_case_175, st_case_176,
     st_case_177, st_case_178, st_case_179, st_case_180, st_case_181, st_case_182, st_case_183,
     st_case_184, st_case_185, st_case_186, st_case_187, st_case_188, st_case_189, st_case_190,
     st_case_191, st_case_192, st_case_193, st_case_194, st_case_195, st_case_196, st_case_197,
     st_case_198, st_case_199, st_case_200, st_case_201, st_case_202, st_case_203, st_case_204,
     st_case_205, st_case_206, st_case_207, st_case_208, st_case_209, st_case_210, st_case_211,
     st_case_212, st_case_213, st_case_214, st_case_215, st_case_216, st_case_217, st_case_218,
     st_case_219, st_case_220, st_case_221, st_case_222, st_case_223, st_case_224, st_case_225,
     st_case_226, st_case_227, st_case_228, st_case_229, st_case_230, st_case_231, st_case_232,
     st_case_233, st_case_234, st_case_235, st_case_236, st_case_237, st_case_238, st_case_239,
     st_case_240, st_case_241, st_case_242, st_case_243, st_case_244, st_case_245, st_case_246,
     st_case_247, st_case_248, st_case_249, st_case_250, st_case_251, st_case_252, st_case_253,
     st_case_254, st_case_255, st_case_256, st_case_257, st_case_258, st_case_259, st_case_260,
     st_case_261, st_case_262, st_case_263, st_case_264, st_case_265, st_case_266, st_case_267,
     st_case_268, st_case_269, st_case_270, st_case_271, st_case_272, st_case_273, st_case_274,
     st_case_275, st_case_276, st_case_277, st_case_278, st_case_279, st_case_280, st_case_281,
     st_case_282, st_case_283, st_case_284, st_case_285, st_case_286, st_case_287, st_case_288,
     st_case_289, st_case_290, st_case_291, st_case_292, st_case_293, st_case_294, st_case_295,
     st_case_296, st_case_297, st_case_298, st_case_299, st_case_300, st_case_301, st_case_302,
     st_case_303, st_case_304, st_case_305, st_case_306, st_case_307, st_case_308, st_case_309,
     st_case_310, st_case_311, st_case_312, st_case_313, st_case_314, st_case_315, st_case_316,
     st_case_317, st_case_318, st_case_319, st_case_320, st_case_321, st_case_322, st_case_323,
     st_case_324, st_case_325, st_case_326, st_case_327, st_case_328, st_case_329, st_case_330,
     st_case_331, st_case_332, st_case_333, st_case_334, st_case_335, st_case_336, st_case_337,
     st_case_338, st_case_339, st_case_340, st_case_341, st_case_342, st_case_343, st_case_344,
     st_case_345, st_case_346, st_case_347, st_case_348, st_case_349>>
=============================================================================
