---------------------------- MODULE SensorTables ----------------------------
(***************************************************************************)
(* The register tables of ov7670.c, in the order in which                  *)
(* ov7670_configure_vga_rgb565 writes them, as <<register, value>> pairs.  *)
(***************************************************************************)
EXTENDS Naturals, Sequences

ov7670_vga_regs == <<
  <<\h3A, \h04>>, <<\h12, \h00>>, <<\h17, \h13>>, <<\h18, \h01>>, <<\h32, \hB6>>, <<\h19, \h02>>,
  <<\h1A, \h7A>>, <<\h03, \h0A>>, <<\h0C, \h00>>, <<\h3E, \h00>>, <<\h70, \h3A>>, <<\h71, \h35>>,
  <<\h72, \h11>>, <<\h73, \hF0>>, <<\hA2, \h02>>, <<\h15, \h00>>, <<\h42, \h00>> >>

ov7670_gamma_regs == <<
  <<\h7A, \h20>>, <<\h7B, \h10>>, <<\h7C, \h1E>>, <<\h7D, \h35>>, <<\h7E, \h5A>>, <<\h7F, \h69>>,
  <<\h80, \h76>>, <<\h81, \h80>>, <<\h82, \h88>>, <<\h83, \h8F>>, <<\h84, \h96>>, <<\h85, \hA3>>,
  <<\h86, \hAF>>, <<\h87, \hC4>>, <<\h88, \hD7>>, <<\h89, \hE8>> >>

ov7670_aec_agc_regs == <<
  <<\h13, \hE0>>, <<\h00, \h00>>, <<\h10, \h00>>, <<\h0D, \h40>>, <<\h14, \h38>>, <<\hA5, \h05>>,
  <<\hAB, \h07>>, <<\h24, \h95>>, <<\h25, \h33>>, <<\h26, \hE3>>, <<\h9F, \h78>>, <<\hA0, \h68>>,
  <<\hA1, \h03>>, <<\hA6, \hD8>>, <<\hA7, \hD8>>, <<\hA8, \hF0>>, <<\hA9, \h90>>, <<\hAA, \h94>> >>

ov7670_sensor_regs == <<
  <<\h0E, \h61>>, <<\h0F, \h4B>>, <<\h16, \h02>>, <<\h1E, \h07>>, <<\h21, \h02>>, <<\h22, \h91>>,
  <<\h29, \h07>>, <<\h33, \h0B>>, <<\h35, \h0B>>, <<\h37, \h1D>>, <<\h38, \h71>>, <<\h39, \h2A>>,
  <<\h3C, \h78>>, <<\h4D, \h40>>, <<\h4E, \h20>>, <<\h69, \h00>>, <<\h74, \h10>>, <<\h8D, \h4F>>,
  <<\h8E, \h00>>, <<\h8F, \h00>>, <<\h90, \h00>>, <<\h91, \h00>>, <<\h96, \h00>>, <<\h9A, \h00>>,
  <<\hB0, \h84>>, <<\hB1, \h0C>>, <<\hB2, \h0E>>, <<\hB3, \h82>>, <<\hB8, \h0A>> >>

ov7670_awb_regs == <<
  <<\h43, \h0A>>, <<\h44, \hF0>>, <<\h45, \h34>>, <<\h46, \h58>>, <<\h47, \h28>>, <<\h48, \h3A>>,
  <<\h59, \h88>>, <<\h5A, \h88>>, <<\h5B, \h44>>, <<\h5C, \h67>>, <<\h5D, \h49>>, <<\h5E, \h0E>>,
  <<\h6C, \h0A>>, <<\h6D, \h55>>, <<\h6E, \h11>>, <<\h6F, \h9F>>, <<\h6A, \h40>>, <<\h01, \h40>>,
  <<\h02, \h60>> >>

ov7670_dsp_regs == <<
  <<\h41, \h38>>, <<\h3F, \h00>>, <<\h75, \h05>>, <<\h76, \hE1>>, <<\h4C, \h00>>, <<\h77, \h01>>,
  <<\h4B, \h09>>, <<\hC9, \h60>>, <<\h56, \h40>>, <<\h34, \h11>>, <<\h3B, \h12>> >>

ov7670_rgb565_regs == <<
  <<\h12, \h04>>, <<\h8C, \h00>>, <<\h04, \h00>>, <<\h40, \hD0>>, <<\h14, \h38>>, <<\h4F, \hB3>>,
  <<\h50, \hB3>>, <<\h51, \h00>>, <<\h52, \h3D>>, <<\h53, \hA7>>, <<\h54, \hE4>>, <<\h58, \h9E>>,
  <<\h3D, \hC0>>, <<\h41, \h08>>, <<\h13, \hE7>>, <<\h70, \h3A>>, <<\h71, \h35>>, <<\h42, \h00>> >>

\* Registers the code names outside the tables.
COM2  == \h09
PID   == \h0A
VER   == \h0B
CLKRC == \h11
COM7  == \h12
COM8  == \h13
COM10 == \h15
COM11 == \h3B
COM14 == \h3E
COM15 == \h40
PLL   == \h6B
XSC   == \h70
YSC   == \h71
=============================================================================
