\* Every pool of up to 33 units and larger ones around the bounds of a digit, at the real commission of 0.3%.
SPECIFICATION Spec
CONSTANTS
  One = 1000
  Uint128Max = 1000000
  CommissionRate = 3
  FeeDivisor = 6
  MinimumLiquidity = 1
  Uint256Max = 1000000
  Uint64Max = 1000
  Scale <- Scale10
  None = None
  PoolSizes = {1, 2, 3, 4, 5, 6, 7, 8, 9, 10, 11, 12, 13, 14, 15, 16, 17, 18,
               19, 20, 21, 22, 23, 24, 25, 26, 27, 28, 29, 30, 31, 32, 33, 47,
               50, 63, 64, 65, 97, 99, 100, 101, 127, 128, 249, 250, 251, 333,
               334, 499, 500, 501, 666, 667, 750, 997, 998, 999}
  Offers = {1, 2, 3, 4, 5, 6, 7, 8, 9, 10, 11, 12, 13, 14, 15, 16, 17, 18,
               19, 20, 21, 22, 23, 24, 31, 49, 50, 51, 63, 64, 65, 98, 99, 100,
               101, 102, 199, 200}
INVARIANTS
  SharesAreFair
  SwapIsFair
  SwapIsMonotone
