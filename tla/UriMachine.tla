----------------------------- MODULE UriMachine -----------------------------
(* The automaton as a whole, with the last part of its states; its characters *)
(* and actions are in UriActions.                                           *)
EXTENDS UriStates2

uri_parser_start == 451
uri_parser_first_final == 451
uri_parser_error == 0

st_case_284 == {To({":"}, 285)}
st_case_285 == {To(Hex, 286), To({":"}, 335)}
st_case_286 == {To(Hex, 287), To({":"}, 290)}
st_case_287 == {To(Hex, 288), To({":"}, 290)}
st_case_288 == {To(Hex, 289), To({":"}, 290)}
st_case_289 == {To({":"}, 290)}
st_case_290 ==
    {To({"stx"}, 291), To({"0"}, 318), To({"1"}, 326), To({"2"}, 329), To({"3", "5", "6"}, 332),
     To({":"}, 333), To({"a"}, 334)}
st_case_291 == {To(Digit \ {"5", "6"}, 292)}
st_case_292 == {To(Digit, 293)}
st_case_293 == {To({"."}, 294)}
st_case_294 ==
    {To({"stx"}, 295), To({"0"}, 297), To({"1"}, 314), To({"2"}, 316), To({"3", "5", "6"}, 315)}
st_case_295 == {To(Digit \ {"5", "6"}, 296)}
st_case_296 == {To(Digit, 297)}
st_case_297 == {To({"."}, 298)}
st_case_298 ==
    {To({"stx"}, 299), To({"0"}, 301), To({"1"}, 310), To({"2"}, 312), To({"3", "5", "6"}, 311)}
st_case_299 == {To(Digit \ {"5", "6"}, 300)}
st_case_300 == {To(Digit, 301)}
st_case_301 == {To({"."}, 302)}
st_case_302 ==
    {To({"stx"}, 303), To({"0"}, 305), To({"1"}, 306), To({"2"}, 308), To({"3", "5", "6"}, 307)}
st_case_303 == {To(Digit \ {"5", "6"}, 304)}
st_case_304 == {To(Digit, 305)}
st_case_305 == {To({"]"}, 512)}
st_case_306 == {To(Digit, 307), To({"]"}, 512)}
st_case_307 == {To(Digit, 305), To({"]"}, 512)}
st_case_308 == {To(Digit \ {"5"}, 305), To({"5"}, 309), To({"]"}, 512)}
st_case_309 == {To(Digit \ {"6"}, 305), To({"]"}, 512)}
st_case_310 == {To({"."}, 302), To(Digit, 311)}
st_case_311 == {To({"."}, 302), To(Digit, 301)}
st_case_312 == {To({"."}, 302), To(Digit \ {"5"}, 301), To({"5"}, 313)}
st_case_313 == {To({"."}, 302), To(Digit \ {"6"}, 301)}
st_case_314 == {To({"."}, 298), To(Digit, 315)}
st_case_315 == {To({"."}, 298), To(Digit, 297)}
st_case_316 == {To({"."}, 298), To(Digit \ {"5"}, 297), To({"5"}, 317)}
st_case_317 == {To({"."}, 298), To(Digit \ {"6"}, 297)}
st_case_318 == {To({"."}, 294), To(Hex, 319), To({":"}, 322)}
st_case_319 == {To(Hex, 320), To({":"}, 322)}
st_case_320 == {To(Hex, 321), To({":"}, 322)}
st_case_321 == {To({":"}, 322)}
st_case_322 == {To(Hex, 323), To({":"}, 305)}
st_case_323 == {To(Hex, 324), To({"]"}, 512)}
st_case_324 == {To(Hex, 325), To({"]"}, 512)}
st_case_325 == {To(Hex, 305), To({"]"}, 512)}
st_case_326 == {To({"."}, 294), To(Digit, 327), To({":"}, 322), To({"a"}, 319)}
st_case_327 == {To({"."}, 294), To(Digit, 328), To({":"}, 322), To({"a"}, 320)}
st_case_328 == {To({"."}, 294), To(Hex, 321), To({":"}, 322)}
st_case_329 ==
    {To({"."}, 294), To(Digit \ {"5"}, 330), To({"5"}, 331), To({":"}, 322), To({"a"}, 319)}
st_case_330 == {To({"."}, 294), To(Hex, 320), To({":"}, 322)}
st_case_331 == {To({"."}, 294), To(Digit \ {"6"}, 328), To({"6", "a"}, 320), To({":"}, 322)}
st_case_332 == {To({"."}, 294), To(Digit, 330), To({":"}, 322), To({"a"}, 319)}
st_case_333 == {To(Hex, 323)}
st_case_334 == {To(Hex, 319), To({":"}, 322)}
st_case_335 ==
    {To({"stx"}, 291), To({"0"}, 336), To({"1"}, 340), To({"2"}, 343), To({"3", "5", "6"}, 346),
     To({"a"}, 347)}
st_case_336 == {To({"."}, 294), To(Hex, 337), To({":"}, 333)}
st_case_337 == {To(Hex, 338), To({":"}, 333)}
st_case_338 == {To(Hex, 339), To({":"}, 333)}
st_case_339 == {To({":"}, 333)}
st_case_340 == {To({"."}, 294), To(Digit, 341), To({":"}, 333), To({"a"}, 337)}
st_case_341 == {To({"."}, 294), To(Digit, 342), To({":"}, 333), To({"a"}, 338)}
st_case_342 == {To({"."}, 294), To(Hex, 339), To({":"}, 333)}
st_case_343 ==
    {To({"."}, 294), To(Digit \ {"5"}, 344), To({"5"}, 345), To({":"}, 333), To({"a"}, 337)}
st_case_344 == {To({"."}, 294), To(Hex, 338), To({":"}, 333)}
st_case_345 == {To({"."}, 294), To(Digit \ {"6"}, 342), To({"6", "a"}, 338), To({":"}, 333)}
st_case_346 == {To({"."}, 294), To(Digit, 344), To({":"}, 333), To({"a"}, 337)}
st_case_347 == {To(Hex, 337), To({":"}, 333)}
st_case_348 == {To(Hex, 349)}
st_case_349 == {To(Hex, 350), To({":"}, 335)}
st_case_350 == {To(Hex, 351), To({":"}, 335)}
st_case_351 == {To(Hex, 352), To({":"}, 335)}
st_case_352 == {To({":"}, 335)}
st_case_353 == {To(Hex, 354)}
st_case_354 == {To(Hex, 355), To({":"}, 348)}
st_case_355 == {To(Hex, 356), To({":"}, 348)}
st_case_356 == {To(Hex, 357), To({":"}, 348)}
st_case_357 == {To({":"}, 348)}
st_case_358 == {To(Hex, 359)}
st_case_359 == {To(Hex, 360), To({":"}, 353)}
st_case_360 == {To(Hex, 361), To({":"}, 353)}
st_case_361 == {To(Hex, 362), To({":"}, 353)}
st_case_362 == {To({":"}, 353)}
st_case_363 == {To(Hex, 364)}
st_case_364 == {To(Hex, 365), To({":"}, 358)}
st_case_365 == {To(Hex, 366), To({":"}, 358)}
st_case_366 == {To(Hex, 367), To({":"}, 358)}
st_case_367 == {To({":"}, 358)}
st_case_368 == {To({":"}, 369)}
st_case_369 ==
    {To({"stx"}, 291), To({"0"}, 370), To({"1"}, 439), To({"2"}, 442), To({"3", "5", "6"}, 445),
     To({"a"}, 446), To({"]"}, 512)}
st_case_370 == {To({"."}, 294), To(Hex, 371), To({":"}, 374), To({"]"}, 512)}
st_case_371 == {To(Hex, 372), To({":"}, 374), To({"]"}, 512)}
st_case_372 == {To(Hex, 373), To({":"}, 374), To({"]"}, 512)}
st_case_373 == {To({":"}, 374), To({"]"}, 512)}
st_case_374 ==
    {To({"stx"}, 291), To({"0"}, 375), To({"1"}, 431), To({"2"}, 434), To({"3", "5", "6"}, 437),
     To({"a"}, 438)}
st_case_375 == {To({"."}, 294), To(Hex, 376), To({":"}, 379), To({"]"}, 512)}
st_case_376 == {To(Hex, 377), To({":"}, 379), To({"]"}, 512)}
st_case_377 == {To(Hex, 378), To({":"}, 379), To({"]"}, 512)}
st_case_378 == {To({":"}, 379), To({"]"}, 512)}
st_case_379 ==
    {To({"stx"}, 291), To({"0"}, 380), To({"1"}, 423), To({"2"}, 426), To({"3", "5", "6"}, 429),
     To({"a"}, 430)}
st_case_380 == {To({"."}, 294), To(Hex, 381), To({":"}, 384), To({"]"}, 512)}
st_case_381 == {To(Hex, 382), To({":"}, 384), To({"]"}, 512)}
st_case_382 == {To(Hex, 383), To({":"}, 384), To({"]"}, 512)}
st_case_383 == {To({":"}, 384), To({"]"}, 512)}
st_case_384 ==
    {To({"stx"}, 291), To({"0"}, 385), To({"1"}, 415), To({"2"}, 418), To({"3", "5", "6"}, 421),
     To({"a"}, 422)}
st_case_385 == {To({"."}, 294), To(Hex, 386), To({":"}, 389), To({"]"}, 512)}
st_case_386 == {To(Hex, 387), To({":"}, 389), To({"]"}, 512)}
st_case_387 == {To(Hex, 388), To({":"}, 389), To({"]"}, 512)}
st_case_388 == {To({":"}, 389), To({"]"}, 512)}
st_case_389 ==
    {To({"stx"}, 291), To({"0"}, 390), To({"1"}, 407), To({"2"}, 410), To({"3", "5", "6"}, 413),
     To({"a"}, 414)}
st_case_390 == {To({"."}, 294), To(Hex, 391), To({":"}, 394), To({"]"}, 512)}
st_case_391 == {To(Hex, 392), To({":"}, 394), To({"]"}, 512)}
st_case_392 == {To(Hex, 393), To({":"}, 394), To({"]"}, 512)}
st_case_393 == {To({":"}, 394), To({"]"}, 512)}
st_case_394 ==
    {To({"stx"}, 291), To({"0"}, 395), To({"1"}, 399), To({"2"}, 402), To({"3", "5", "6"}, 405),
     To({"a"}, 406)}
st_case_395 == {To({"."}, 294), To(Hex, 396), To({":"}, 333), To({"]"}, 512)}
st_case_396 == {To(Hex, 397), To({":"}, 333), To({"]"}, 512)}
st_case_397 == {To(Hex, 398), To({":"}, 333), To({"]"}, 512)}
st_case_398 == {To({":"}, 333), To({"]"}, 512)}
st_case_399 == {To({"."}, 294), To(Digit, 400), To({":"}, 333), To({"a"}, 396), To({"]"}, 512)}
st_case_400 == {To({"."}, 294), To(Digit, 401), To({":"}, 333), To({"a"}, 397), To({"]"}, 512)}
st_case_401 == {To({"."}, 294), To(Hex, 398), To({":"}, 333), To({"]"}, 512)}
st_case_402 ==
    {To({"."}, 294), To(Digit \ {"5"}, 403), To({"5"}, 404), To({":"}, 333), To({"a"}, 396),
     To({"]"}, 512)}
st_case_403 == {To({"."}, 294), To(Hex, 397), To({":"}, 333), To({"]"}, 512)}
st_case_404 ==
    {To({"."}, 294), To(Digit \ {"6"}, 401), To({"6", "a"}, 397), To({":"}, 333), To({"]"}, 512)}
st_case_405 == {To({"."}, 294), To(Digit, 403), To({":"}, 333), To({"a"}, 396), To({"]"}, 512)}
st_case_406 == {To(Hex, 396), To({":"}, 333), To({"]"}, 512)}
st_case_407 == {To({"."}, 294), To(Digit, 408), To({":"}, 394), To({"a"}, 391), To({"]"}, 512)}
st_case_408 == {To({"."}, 294), To(Digit, 409), To({":"}, 394), To({"a"}, 392), To({"]"}, 512)}
st_case_409 == {To({"."}, 294), To(Hex, 393), To({":"}, 394), To({"]"}, 512)}
st_case_410 ==
    {To({"."}, 294), To(Digit \ {"5"}, 411), To({"5"}, 412), To({":"}, 394), To({"a"}, 391),
     To({"]"}, 512)}
st_case_411 == {To({"."}, 294), To(Hex, 392), To({":"}, 394), To({"]"}, 512)}
st_case_412 ==
    {To({"."}, 294), To(Digit \ {"6"}, 409), To({"6", "a"}, 392), To({":"}, 394), To({"]"}, 512)}
st_case_413 == {To({"."}, 294), To(Digit, 411), To({":"}, 394), To({"a"}, 391), To({"]"}, 512)}
st_case_414 == {To(Hex, 391), To({":"}, 394), To({"]"}, 512)}
st_case_415 == {To({"."}, 294), To(Digit, 416), To({":"}, 389), To({"a"}, 386), To({"]"}, 512)}
st_case_416 == {To({"."}, 294), To(Digit, 417), To({":"}, 389), To({"a"}, 387), To({"]"}, 512)}
st_case_417 == {To({"."}, 294), To(Hex, 388), To({":"}, 389), To({"]"}, 512)}
st_case_418 ==
    {To({"."}, 294), To(Digit \ {"5"}, 419), To({"5"}, 420), To({":"}, 389), To({"a"}, 386),
     To({"]"}, 512)}
st_case_419 == {To({"."}, 294), To(Hex, 387), To({":"}, 389), To({"]"}, 512)}
st_case_420 ==
    {To({"."}, 294), To(Digit \ {"6"}, 417), To({"6", "a"}, 387), To({":"}, 389), To({"]"}, 512)}
st_case_421 == {To({"."}, 294), To(Digit, 419), To({":"}, 389), To({"a"}, 386), To({"]"}, 512)}
st_case_422 == {To(Hex, 386), To({":"}, 389), To({"]"}, 512)}
st_case_423 == {To({"."}, 294), To(Digit, 424), To({":"}, 384), To({"a"}, 381), To({"]"}, 512)}
st_case_424 == {To({"."}, 294), To(Digit, 425), To({":"}, 384), To({"a"}, 382), To({"]"}, 512)}
st_case_425 == {To({"."}, 294), To(Hex, 383), To({":"}, 384), To({"]"}, 512)}
st_case_426 ==
    {To({"."}, 294), To(Digit \ {"5"}, 427), To({"5"}, 428), To({":"}, 384), To({"a"}, 381),
     To({"]"}, 512)}
st_case_427 == {To({"."}, 294), To(Hex, 382), To({":"}, 384), To({"]"}, 512)}
st_case_428 ==
    {To({"."}, 294), To(Digit \ {"6"}, 425), To({"6", "a"}, 382), To({":"}, 384), To({"]"}, 512)}
st_case_429 == {To({"."}, 294), To(Digit, 427), To({":"}, 384), To({"a"}, 381), To({"]"}, 512)}
st_case_430 == {To(Hex, 381), To({":"}, 384), To({"]"}, 512)}
st_case_431 == {To({"."}, 294), To(Digit, 432), To({":"}, 379), To({"a"}, 376), To({"]"}, 512)}
st_case_432 == {To({"."}, 294), To(Digit, 433), To({":"}, 379), To({"a"}, 377), To({"]"}, 512)}
st_case_433 == {To({"."}, 294), To(Hex, 378), To({":"}, 379), To({"]"}, 512)}
st_case_434 ==
    {To({"."}, 294), To(Digit \ {"5"}, 435), To({"5"}, 436), To({":"}, 379), To({"a"}, 376),
     To({"]"}, 512)}
st_case_435 == {To({"."}, 294), To(Hex, 377), To({":"}, 379), To({"]"}, 512)}
st_case_436 ==
    {To({"."}, 294), To(Digit \ {"6"}, 433), To({"6", "a"}, 377), To({":"}, 379), To({"]"}, 512)}
st_case_437 == {To({"."}, 294), To(Digit, 435), To({":"}, 379), To({"a"}, 376), To({"]"}, 512)}
st_case_438 == {To(Hex, 376), To({":"}, 379), To({"]"}, 512)}
st_case_439 == {To({"."}, 294), To(Digit, 440), To({":"}, 374), To({"a"}, 371), To({"]"}, 512)}
st_case_440 == {To({"."}, 294), To(Digit, 441), To({":"}, 374), To({"a"}, 372), To({"]"}, 512)}
st_case_441 == {To({"."}, 294), To(Hex, 373), To({":"}, 374), To({"]"}, 512)}
st_case_442 ==
    {To({"."}, 294), To(Digit \ {"5"}, 443), To({"5"}, 444), To({":"}, 374), To({"a"}, 371),
     To({"]"}, 512)}
st_case_443 == {To({"."}, 294), To(Hex, 372), To({":"}, 374), To({"]"}, 512)}
st_case_444 ==
    {To({"."}, 294), To(Digit \ {"6"}, 441), To({"6", "a"}, 372), To({":"}, 374), To({"]"}, 512)}
st_case_445 == {To({"."}, 294), To(Digit, 443), To({":"}, 374), To({"a"}, 371), To({"]"}, 512)}
st_case_446 == {To(Hex, 371), To({":"}, 374), To({"]"}, 512)}
st_case_447 == {To(Hex, 448)}
st_case_448 == {To({"."}, 449), To(Hex, 448)}
st_case_449 == {To(Reg \cup {":"}, 450)}
st_case_450 == {To(Reg \cup {":"}, 450), To({"]"}, 512)}
st_case_542 ==
    {To((Reg \ Digit) \cup {":"}, 255), By({"#"}, ctr570), To({"%"}, 256), By({"/"}, ctr571),
     To(Digit, 542), By({"?"}, ctr573), By({"@"}, ctr263)}
st_case_543 ==
    {To(Reg \ {"."}, 520), By({"#"}, ctr559), To({"%"}, 253), To({"."}, 544), By({"/"}, ctr560),
     By({":"}, ctr576), By({"?"}, ctr562), By({"@"}, ctr263)}
st_case_544 ==
    {To({"stx"}, 233), To(Reg \ Digit, 520), By({"#"}, ctr559), To({"%"}, 253),
     By({"/"}, ctr560), To({"0"}, 545), To({"1"}, 553), To({"2"}, 555), To({"3", "5", "6"}, 554),
     By({":"}, ctr576), By({"?"}, ctr562), By({"@"}, ctr263)}
st_case_545 ==
    {To(Reg \ {"."}, 520), By({"#"}, ctr559), To({"%"}, 253), To({"."}, 546), By({"/"}, ctr560),
     By({":"}, ctr576), By({"?"}, ctr562), By({"@"}, ctr263)}
st_case_546 ==
    {To({"stx"}, 237), To(Reg \ Digit, 520), By({"#"}, ctr559), To({"%"}, 253),
     By({"/"}, ctr560), To({"0"}, 547), To({"1"}, 549), To({"2"}, 551), To({"3", "5", "6"}, 550),
     By({":"}, ctr576), By({"?"}, ctr562), By({"@"}, ctr263)}
st_case_547 ==
    {To(Reg \ {"."}, 520), By({"#"}, ctr559), To({"%"}, 253), To({"."}, 548), By({"/"}, ctr560),
     By({":"}, ctr576), By({"?"}, ctr562), By({"@"}, ctr263)}
st_case_548 ==
    {To({"stx"}, 241), To(Reg, 520), By({"#"}, ctr559), To({"%"}, 253), By({"/"}, ctr560),
     By({":"}, ctr576), By({"?"}, ctr562), By({"@"}, ctr263)}
st_case_549 ==
    {To(Alpha \cup {"!", "+"}, 520), By({"#"}, ctr559), To({"%"}, 253), To({"."}, 548),
     By({"/"}, ctr560), To(Digit, 550), By({":"}, ctr576), By({"?"}, ctr562), By({"@"}, ctr263)}
st_case_550 ==
    {To(Alpha \cup {"!", "+"}, 520), By({"#"}, ctr559), To({"%"}, 253), To({"."}, 548),
     By({"/"}, ctr560), To(Digit, 547), By({":"}, ctr576), By({"?"}, ctr562), By({"@"}, ctr263)}
st_case_551 ==
    {To(Alpha \cup {"!", "+"}, 520), By({"#"}, ctr559), To({"%"}, 253), To({"."}, 548),
     By({"/"}, ctr560), To(Digit \ {"5"}, 547), To({"5"}, 552), By({":"}, ctr576),
     By({"?"}, ctr562), By({"@"}, ctr263)}
st_case_552 ==
    {To(Alpha \cup {"!", "+", "6"}, 520), By({"#"}, ctr559), To({"%"}, 253), To({"."}, 548),
     By({"/"}, ctr560), To(Digit \ {"6"}, 547), By({":"}, ctr576), By({"?"}, ctr562),
     By({"@"}, ctr263)}
st_case_553 ==
    {To(Alpha \cup {"!", "+"}, 520), By({"#"}, ctr559), To({"%"}, 253), To({"."}, 546),
     By({"/"}, ctr560), To(Digit, 554), By({":"}, ctr576), By({"?"}, ctr562), By({"@"}, ctr263)}
st_case_554 ==
    {To(Alpha \cup {"!", "+"}, 520), By({"#"}, ctr559), To({"%"}, 253), To({"."}, 546),
     By({"/"}, ctr560), To(Digit, 545), By({":"}, ctr576), By({"?"}, ctr562), By({"@"}, ctr263)}
st_case_555 ==
    {To(Alpha \cup {"!", "+"}, 520), By({"#"}, ctr559), To({"%"}, 253), To({"."}, 546),
     By({"/"}, ctr560), To(Digit \ {"5"}, 545), To({"5"}, 556), By({":"}, ctr576),
     By({"?"}, ctr562), By({"@"}, ctr263)}
st_case_556 ==
    {To(Alpha \cup {"!", "+", "6"}, 520), By({"#"}, ctr559), To({"%"}, 253), To({"."}, 546),
     By({"/"}, ctr560), To(Digit \ {"6"}, 545), By({":"}, ctr576), By({"?"}, ctr562),
     By({"@"}, ctr263)}
st_case_557 ==
    {To(Alpha \cup {"!", "+"}, 520), By({"#"}, ctr559), To({"%"}, 253), To({"."}, 544),
     By({"/"}, ctr560), To(Digit, 558), By({":"}, ctr576), By({"?"}, ctr562), By({"@"}, ctr263)}
st_case_558 ==
    {To(Alpha \cup {"!", "+"}, 520), By({"#"}, ctr559), To({"%"}, 253), To({"."}, 544),
     By({"/"}, ctr560), To(Digit, 543), By({":"}, ctr576), By({"?"}, ctr562), By({"@"}, ctr263)}
st_case_559 ==
    {To(Alpha \cup {"!", "+"}, 520), By({"#"}, ctr559), To({"%"}, 253), To({"."}, 544),
     By({"/"}, ctr560), To(Digit \ {"5"}, 543), To({"5"}, 560), By({":"}, ctr576),
     By({"?"}, ctr562), By({"@"}, ctr263)}
st_case_560 ==
    {To(Alpha \cup {"!", "+", "6"}, 520), By({"#"}, ctr559), To({"%"}, 253), To({"."}, 544),
     By({"/"}, ctr560), To(Digit \ {"6"}, 543), By({":"}, ctr576), By({"?"}, ctr562),
     By({"@"}, ctr263)}

\* The jump to the state the machine is in.
states ==
    <<st_case_1, st_case_2, st_case_3, st_case_4, st_case_5, st_case_6, st_case_7, st_case_8,
     st_case_9, st_case_10, st_case_11, st_case_12, st_case_13, st_case_14, st_case_15,
     st_case_16, st_case_17, st_case_18, st_case_19, st_case_20, st_case_21, st_case_22,
     st_case_23, st_case_24, st_case_25, st_case_26, st_case_27, st_case_28, st_case_29,
     st_case_30, st_case_31, st_case_32, st_case_33, st_case_34, st_case_35, st_case_36,
     st_case_37, st_case_38, st_case_39, st_case_40, st_case_41, st_case_42, st_case_43,
     st_case_44, st_case_45, st_case_46, st_case_47, st_case_48, st_case_49, st_case_50,
     st_case_51, st_case_52, st_case_53, st_case_54, st_case_55, st_case_56, st_case_57,
     st_case_58, st_case_59, st_case_60, st_case_61, st_case_62, st_case_63, st_case_64,
     st_case_65, st_case_66, st_case_67, st_case_68, st_case_69, st_case_70, st_case_71,
     st_case_72, st_case_73, st_case_74, st_case_75, st_case_76, st_case_77, st_case_78,
     st_case_79, st_case_80, st_case_81, st_case_82, st_case_83, st_case_84, st_case_85,
     st_case_86, st_case_87, st_case_88, st_case_89, st_case_90, st_case_91, st_case_92,
     st_case_93, st_case_94, st_case_95, st_case_96, st_case_97, st_case_98, st_case_99,
     st_case_100, st_case_101, st_case_102, st_case_103, st_case_104, st_case_105, st_case_106,
     st_case_107, st_case_108, st_case_109, st_case_110, st_case_111, st_case_112, st_case_113,
     st_case_114, st_case_115, st_case_116, st_case_117, st_case_118, st_case_119, st_case_120,
     st_case_121, st_case_122, st_case_123, st_case_124, st_case_125, st_case_126, st_case_127,
     st_case_128, st_case_129, st_case_130, st_case_131, st_case_132, st_case_133, st_case_134,
     st_case_135, st_case_136, st_case_137, st_case_138, st_case_139, st_case_140, st_case_141,
     st_case_142, st_case_143, st_case_144, st_case_145, st_case_146, st_case_147, st_case_148,
     st_case_149, st_case_150, st_case_151, st_case_152, st_case_153, st_case_154, st_case_155,
     st_case_156, st_case_157, st_case_158, st_case_159, st_case_160, st_case_161, st_case_162,
     st_case_163, st_case_164, st_case_165, st_case_166, st_case_167, st_case_168, st_case_169,
     st_case_170, st_case_171, st_case_172, st_case_173, st_case_174, st_case_175, st_case_176,
     st_case_177, st_case_178, st_case_179, st_case_180, st_case_181, st_case_182, st_case_183,
     st_case_184, st_case_185, st_case_186, st_case_187, st_case_188, st_case_189, st_case_190,
     st_case_191, st_case_192, st_case_193, st_case_194, st_case_195, st_case_196, st_case_197,
     st_case_198, st_case_199, st_case_200, st_case_201, st_case_202, st_case_203, st_case_204,
     st_case_205, st_case_206, st_case_207, st_case_208, st_case_209, st_case_210, st_case_211,
     st_case_212, st_case_213, st_case_214, st_case_215, st_case_216, st_case_217, st_case_218,
     st_case_219, st_case_220, st_case_221, st_case_222, st_case_223, st_case_224, st_case_225,
     st_case_226, st_case_227, st_case_228, st_case_229, st_case_230, st_case_231, st_case_232,
     st_case_233, st_case_234, st_case_235, st_case_236, st_case_237, st_case_238, st_case_239,
     st_case_240, st_case_241, st_case_242, st_case_243, st_case_244, st_case_245, st_case_246,
     st_case_247, st_case_248, st_case_249, st_case_250, st_case_251, st_case_252, st_case_253,
     st_case_254, st_case_255, st_case_256, st_case_257, st_case_258, st_case_259, st_case_260,
     st_case_261, st_case_262, st_case_263, st_case_264, st_case_265, st_case_266, st_case_267,
     st_case_268, st_case_269, st_case_270, st_case_271, st_case_272, st_case_273, st_case_274,
     st_case_275, st_case_276, st_case_277, st_case_278, st_case_279, st_case_280, st_case_281,
     st_case_282, st_case_283, st_case_284, st_case_285, st_case_286, st_case_287, st_case_288,
     st_case_289, st_case_290, st_case_291, st_case_292, st_case_293, st_case_294, st_case_295,
     st_case_296, st_case_297, st_case_298, st_case_299, st_case_300, st_case_301, st_case_302,
     st_case_303, st_case_304, st_case_305, st_case_306, st_case_307, st_case_308, st_case_309,
     st_case_310, st_case_311, st_case_312, st_case_313, st_case_314, st_case_315, st_case_316,
     st_case_317, st_case_318, st_case_319, st_case_320, st_case_321, st_case_322, st_case_323,
     st_case_324, st_case_325, st_case_326, st_case_327, st_case_328, st_case_329, st_case_330,
     st_case_331, st_case_332, st_case_333, st_case_334, st_case_335, st_case_336, st_case_337,
     st_case_338, st_case_339, st_case_340, st_case_341, st_case_342, st_case_343, st_case_344,
     st_case_345, st_case_346, st_case_347, st_case_348, st_case_349, st_case_350, st_case_351,
     st_case_352, st_case_353, st_case_354, st_case_355, st_case_356, st_case_357, st_case_358,
     st_case_359, st_case_360, st_case_361, st_case_362, st_case_363, st_case_364, st_case_365,
     st_case_366, st_case_367, st_case_368, st_case_369, st_case_370, st_case_371, st_case_372,
     st_case_373, st_case_374, st_case_375, st_case_376, st_case_377, st_case_378, st_case_379,
     st_case_380, st_case_381, st_case_382, st_case_383, st_case_384, st_case_385, st_case_386,
     st_case_387, st_case_388, st_case_389, st_case_390, st_case_391, st_case_392, st_case_393,
     st_case_394, st_case_395, st_case_396, st_case_397, st_case_398, st_case_399, st_case_400,
     st_case_401, st_case_402, st_case_403, st_case_404, st_case_405, st_case_406, st_case_407,
     st_case_408, st_case_409, st_case_410, st_case_411, st_case_412, st_case_413, st_case_414,
     st_case_415, st_case_416, st_case_417, st_case_418, st_case_419, st_case_420, st_case_421,
     st_case_422, st_case_423, st_case_424, st_case_425, st_case_426, st_case_427, st_case_428,
     st_case_429, st_case_430, st_case_431, st_case_432, st_case_433, st_case_434, st_case_435,
     st_case_436, st_case_437, st_case_438, st_case_439, st_case_440, st_case_441, st_case_442,
     st_case_443, st_case_444, st_case_445, st_case_446, st_case_447, st_case_448, st_case_449,
     st_case_450, st_case_451, st_case_452, st_case_453, st_case_454, st_case_455, st_case_456,
     st_case_457, st_case_458, st_case_459, st_case_460, st_case_461, st_case_462, st_case_463,
     st_case_464, st_case_465, st_case_466, st_case_467, st_case_468, st_case_469, st_case_470,
     st_case_471, st_case_472, st_case_473, st_case_474, st_case_475, st_case_476, st_case_477,
     st_case_478, st_case_479, st_case_480, st_case_481, st_case_482, st_case_483, st_case_484,
     st_case_485, st_case_486, st_case_487, st_case_488, st_case_489, st_case_490, st_case_491,
     st_case_492, st_case_493, st_case_494, st_case_495, st_case_496, st_case_497, st_case_498,
     st_case_499, st_case_500, st_case_501, st_case_502, st_case_503, st_case_504, st_case_505,
     st_case_506, st_case_507, st_case_508, st_case_509, st_case_510, st_case_511, st_case_512,
     st_case_513, st_case_514, st_case_515, st_case_516, st_case_517, st_case_518, st_case_519,
     st_case_520, st_case_521, st_case_522, st_case_523, st_case_524, st_case_525, st_case_526,
     st_case_527, st_case_528, st_case_529, st_case_530, st_case_531, st_case_532, st_case_533,
     st_case_534, st_case_535, st_case_536, st_case_537, st_case_538, st_case_539, st_case_540,
     st_case_541, st_case_542, st_case_543, st_case_544, st_case_545, st_case_546, st_case_547,
     st_case_548, st_case_549, st_case_550, st_case_551, st_case_552, st_case_553, st_case_554,
     st_case_555, st_case_556, st_case_557, st_case_558, st_case_559, st_case_560>>
=============================================================================
